---- MODULE Spec2Model ----
(***************************************************************************)
(* State-machine model of flight_anom_gr.py: the detection cycle of main() *)
(* (track history, pattern / proximity / anomaly / military alerts and     *)
(* their cooldown dictionaries) and the pure classifiers it calls.         *)
(*                                                                         *)
(* Units.  Positions are points <<lat, lon>> of an integer grid whose step *)
(* is 1/32 degree (index 0 is 0.0 degrees).  Distances are millimetres    *)
(* (1 km = 1000000), angles are millidegrees (1 degree = 1000), times are  *)
(* whole seconds.  haversine_km and heading are modelled by their values   *)
(* on the grid, rounded to those units.                                    *)
(***************************************************************************)
EXTENDS Integers, Sequences, FiniteSets, TLC

\* Python's None for an optional number (lat, lon, alt_baro, gs, ts, heading).
None == -99999

\* Python's None for an optional string (squawk, pattern) or Optional[bool].
NoneStr == "None"

(***************************************************************************)
(* Bounds of the model.                                                    *)
(***************************************************************************)
\* Largest latitude / longitude grid index of a record of the survey traffic.
MaxLat == 1
MaxLon == 1
\* Largest latitude grid index of a record of the formation traffic.
FormMaxLat == 3
\* Most raw records one cycle's fetches deliver.
MaxRecs == 2
\* The clock (time.time(), whole seconds) runs from StartTime to MaxTime.
StartTime == 4
MaxTime == 6
\* Longest sleep between two cycles, in seconds.
MaxSleep == 2
\* The model's stand-in for the deque bound maxlen=120 of track_history.
TrackMaxLen == 3
\* Largest latitude / longitude grid index of a track handed to a detector.
DetMaxLat == 2
DetMaxLon == 1
\* Longest track handed to a detector in the detector specification.
DetMaxLen == 4
\* Proximity harness: the coordinates of the two aircraft, in grid steps.
ProxMaxCoord == 2
\* Normalizer harness: the raw records of one cycle.
NormMaxRecs == 2
ProxPrevMaxLon == 1
GuardProcs == 2
GuardMaxFetches == 2
GuardMaxTime == 150
LoopMaxLat == 3
LoopMaxLon == 2
LoopMaxLen == 4

(***************************************************************************)
(* Small arithmetic helpers (Python builtins).                             *)
(***************************************************************************)
Abs(x) == IF x < 0 THEN -x ELSE x

Max2(x, y) == IF x >= y THEN x ELSE y

Min2(x, y) == IF x <= y THEN x ELSE y

SetMax(S) == CHOOSE x \in S : \A y \in S : y <= x

SetMin(S) == CHOOSE x \in S : \A y \in S : x <= y

RECURSIVE SumSeq(_)
SumSeq(s) == IF s = <<>> THEN 0 ELSE Head(s) + SumSeq(Tail(s))

Lat(p) == p[1]

Lon(p) == p[2]

(***************************************************************************)
(* haversine_km on the grid: HaversineTable[lat1+1][lat2+1][|dlon|+1] is   *)
(* R*2*atan2(sqrt(a), sqrt(1-a)) in millimetres for grid latitudes lat1,   *)
(* lat2 and a longitude difference of dlon grid steps.                     *)
(***************************************************************************)
HaversineTable ==
    <<
       <<<<0, 3474841, 6949683, 10424524, 13899366>>,
         <<3474841, 4914168, 7769981, 10988413, 14327138>>,
         <<6949683, 7769981, 9828335, 12528717, 15539961>>,
         <<10424524, 10988413, 12528717, 14742500, 17374202>>,
         <<13899366, 14327138, 15539961, 17374202, 19656664>>>>,
       <<<<3474841, 4914168, 7769981, 10988413, 14327138>>,
         <<0, 3474841, 6949682, 10424523, 13899364>>,
         <<3474841, 4914167, 7769980, 10988410, 14327134>>,
         <<6949683, 7769981, 9828333, 12528713, 15539955>>,
         <<10424524, 10988412, 12528715, 14742496, 17374196>>>>,
       <<<<6949683, 7769981, 9828335, 12528717, 15539961>>,
         <<3474841, 4914167, 7769980, 10988410, 14327134>>,
         <<0, 3474839, 6949679, 10424518, 13899358>>,
         <<3474841, 4914166, 7769976, 10988404, 14327126>>,
         <<6949683, 7769980, 9828329, 12528707, 15539946>>>>,
       <<<<10424524, 10988413, 12528717, 14742500, 17374202>>,
         <<6949683, 7769981, 9828333, 12528713, 15539955>>,
         <<3474841, 4914166, 7769976, 10988404, 14327126>>,
         <<0, 3474837, 6949674, 10424510, 13899347>>,
         <<3474841, 4914163, 7769970, 10988395, 14327114>>>>,
       <<<<13899366, 14327138, 15539961, 17374202, 19656664>>,
         <<10424524, 10988412, 12528715, 14742496, 17374196>>,
         <<6949683, 7769980, 9828329, 12528707, 15539946>>,
         <<3474841, 4914163, 7769970, 10988395, 14327114>>,
         <<0, 3474833, 6949666, 10424500, 13899333>>>>
    >>

haversine_km(p1, p2) ==
    HaversineTable[Lat(p1) + 1][Lat(p2) + 1][Abs(Lon(p2) - Lon(p1)) + 1]

(***************************************************************************)
(* heading on the grid: HeadingTable[dy+5][dx+5] is                        *)
(* degrees(atan2(dx, dy)) % 360 in millidegrees, None for dx = dy = 0.     *)
(***************************************************************************)
HeadingTable ==
    <<
       <<225000, 216870, 206565, 194036, 180000, 165964, 153435, 143130, 135000>>,
       <<233130, 225000, 213690, 198435, 180000, 161565, 146310, 135000, 126870>>,
       <<243435, 236310, 225000, 206565, 180000, 153435, 135000, 123690, 116565>>,
       <<255964, 251565, 243435, 225000, 180000, 135000, 116565, 108435, 104036>>,
       <<270000, 270000, 270000, 270000, None, 90000, 90000, 90000, 90000>>,
       <<284036, 288435, 296565, 315000, 0, 45000, 63435, 71565, 75964>>,
       <<296565, 303690, 315000, 333435, 0, 26565, 45000, 56310, 63435>>,
       <<306870, 315000, 326310, 341565, 0, 18435, 33690, 45000, 53130>>,
       <<315000, 323130, 333435, 345964, 0, 14036, 26565, 36870, 45000>>
    >>

heading(p1, p2) ==
    LET dy == Lat(p2) - Lat(p1)
        dx == Lon(p2) - Lon(p1)
    IN  IF dx = 0 /\ dy = 0 THEN None ELSE HeadingTable[dy + 5][dx + 5]

angle_diff_deg(a, b) ==
    LET d == Abs(a - b) % 360000
    IN  IF d <= 180000 THEN d ELSE 360000 - d

\* [p[0] for p in track] and [p[1] for p in track], as sets for min / max.
Lats(track) == {Lat(track[i]) : i \in 1..Len(track)}

Lons(track) == {Lon(track[i]) : i \in 1..Len(track)}

(***************************************************************************)
(* detect_loop_or_racetrack.  Returns "LOOP/CERCHIO", "RACETRACK" or       *)
(* NoneStr.  The two spans are measured along a meridian and along the     *)
(* parallel of the lowest latitude; for the aspect ratio, where a          *)
(* millimetre decides, they are taken in units of 1e-8 grid steps, in      *)
(* which major / (minor + 1e-6) < 1.5 is 2 * major < 3 * (minor + 29).     *)
(***************************************************************************)
\* One grid step along a meridian (3.4748 km), in fine units.
FineStep == 100000000

\* haversine_km along the parallel of latitude lat over dlon steps, in fine
\* units: ParallelFine[lat + 1][dlon + 1].
ParallelFine ==
    << <<0, 100000000, 200000000, 300000000, 400000000>>,
       <<0, 99999985, 199999970, 299999955, 399999941>>,
       <<0, 99999941, 199999881, 299999822, 399999762>>,
       <<0, 99999866, 199999732, 299999598, 399999465>>,
       <<0, 99999762, 199999524, 299999286, 399999048>> >>

\* The 1e-6 km added to minor at line 306, in fine units.
AspectEps == 29

\* LoopCrossings counting a point on the midline as a crossing.
LoopCrossings_Touching(track) ==
    LET lo == SetMin(Lats(track))
        hi == SetMax(Lats(track))
    IN  Cardinality({i \in 1..(Len(track) - 1) :
            (2 * Lat(track[i]) - (hi + lo)) * (2 * Lat(track[i + 1]) - (hi + lo)) <= 0})

LoopCrossings(track) ==
    LET lo == SetMin(Lats(track))
        hi == SetMax(Lats(track))
    IN  Cardinality({i \in 1..(Len(track) - 1) :
            (2 * Lat(track[i]) - (hi + lo)) * (2 * Lat(track[i + 1]) - (hi + lo)) < 0})

\* Lines 296-317: the spans, the shape and the midline crossings.
LoopShape(track, min_span_km, min_laps) ==
    LET minlat == SetMin(Lats(track))
        maxlat == SetMax(Lats(track))
        minlon == SetMin(Lons(track))
        maxlon == SetMax(Lons(track))
        span_lat == haversine_km(<<minlat, minlon>>, <<maxlat, minlon>>)
        span_lon == haversine_km(<<minlat, minlon>>, <<minlat, maxlon>>)
        major == Max2(span_lat, span_lon)
        minor == Min2(span_lat, span_lon)
        fine_lat == (maxlat - minlat) * FineStep
        fine_lon == ParallelFine[minlat + 1][maxlon - minlon + 1]
        shape == IF 2 * Max2(fine_lat, fine_lon) < 3 * (Min2(fine_lat, fine_lon) + AspectEps)
                 THEN "LOOP/CERCHIO" ELSE "RACETRACK"
    IN  IF major < min_span_km \/ minor < 2000000 THEN NoneStr
        ELSE IF LoopCrossings(track) < min_laps * 2 THEN NoneStr
        ELSE shape


\* detect_loop_or_racetrack without the test of the distance between the ends.
detect_loop_or_racetrack_Open(track, loop_close_km, min_points, min_span_km, min_laps) ==
    IF Len(track) < min_points THEN NoneStr
    ELSE LoopShape(track, min_span_km, min_laps)

detect_loop_or_racetrack(track, loop_close_km, min_points, min_span_km, min_laps) ==
    IF Len(track) < min_points THEN NoneStr
    ELSE IF haversine_km(track[1], track[Len(track)]) > loop_close_km THEN NoneStr
    ELSE LoopShape(track, min_span_km, min_laps)

(***************************************************************************)
(* detect_lawnmower.                                                       *)
(***************************************************************************)
\* The headings of the consecutive pairs that have one (h is not None).
RECURSIVE PairHeadings(_, _)
PairHeadings(track, i) ==
    IF i >= Len(track) THEN <<>>
    ELSE LET h == heading(track[i], track[i + 1])
         IN  (IF h = None THEN <<>> ELSE <<h>>) \o PairHeadings(track, i + 1)

LawnHeads(track) ==
    LET hs == PairHeadings(track, 1)
    IN  [i \in 1..Len(hs) |-> hs[i] % 180000]

\* sum(angle_diff_deg(x, y) for y in heads)
LawnCost(x, heads) == SumSeq([i \in 1..Len(heads) |-> angle_diff_deg(x, heads[i])])

\* min(heads, key=...): the first element of least cost.
LawnBase(heads) ==
    LET best == CHOOSE i \in 1..Len(heads) :
                  /\ \A j \in 1..Len(heads) :
                        LawnCost(heads[i], heads) <= LawnCost(heads[j], heads)
                  /\ \A j \in 1..(i - 1) :
                        LawnCost(heads[j], heads) > LawnCost(heads[i], heads)
    IN  heads[best]

\* The label the two if / elif tests give heading h: "A", "B" or NoneStr.
LawnLabel(h, base, heading_tolerance) ==
    IF angle_diff_deg(h, base) < heading_tolerance THEN "A"
    ELSE IF angle_diff_deg((h + 180000) % 180000, base) < heading_tolerance THEN "B"
    ELSE NoneStr

RECURSIVE LawnSequence(_, _, _)
LawnSequence(heads, base, heading_tolerance) ==
    IF heads = <<>> THEN <<>>
    ELSE LET l == LawnLabel(Head(heads), base, heading_tolerance)
         IN  (IF l = NoneStr THEN <<>> ELSE <<l>>)
                \o LawnSequence(Tail(heads), base, heading_tolerance)

Alternations(sequence) ==
    Cardinality({i \in 2..Len(sequence) : sequence[i] # sequence[i - 1]})


\* LawnClusterSizesOk counting the first cluster only.
LawnClusterSizesOk_FirstOnly(sequence, required_passes) ==
    Cardinality({i \in 1..Len(sequence) : sequence[i] = "A"}) >= required_passes

LawnClusterSizesOk(sequence, required_passes) ==
    /\ Cardinality({i \in 1..Len(sequence) : sequence[i] = "A"}) >= required_passes
    /\ Cardinality({i \in 1..Len(sequence) : sequence[i] = "B"}) >= required_passes

detect_lawnmower(track, min_points, heading_tolerance, required_passes, min_span_km) ==
    IF Len(track) < min_points THEN FALSE
    ELSE IF haversine_km(<<SetMin(Lats(track)), SetMin(Lons(track))>>,
                         <<SetMax(Lats(track)), SetMax(Lons(track))>>) < min_span_km
         THEN FALSE
    ELSE
      LET heads == LawnHeads(track)
      IN  IF heads = <<>> THEN FALSE
          ELSE
            LET base == LawnBase(heads)
                sequence == LawnSequence(heads, base, heading_tolerance)
            IN  IF ~LawnClusterSizesOk(sequence, required_passes) THEN FALSE
                ELSE Alternations(sequence) >= required_passes - 1

(***************************************************************************)
(* detect_mesh.  Rounded headings are whole degrees (multiples of 10).     *)
(***************************************************************************)
\* int(round(h / 10.0) * 10) % 180 for h in millidegrees; Python's round
\* sends a tie to the even neighbour.
MeshRound(h) ==
    LET q == h \div 10000
        r == h % 10000
        n == IF r < 5000 THEN q
             ELSE IF r > 5000 THEN q + 1
             ELSE IF q % 2 = 0 THEN q ELSE q + 1
    IN  (n * 10) % 180

MeshHeads(track) ==
    LET hs == PairHeadings(track, 1)
    IN  [i \in 1..Len(hs) |-> MeshRound(hs[i])]

\* The perpendicularity test of the list comprehension building pairs.
MeshPerp(a, b, perpendicular_tolerance) ==
    Abs((((a - b) + 180) % 180) - 90) * 1000 <= perpendicular_tolerance

\* pairs[0]: a ranges over sorted(uniq) in the outer loop, b in the inner.
MeshFirstPair(uniq, perpendicular_tolerance) ==
    LET a == SetMin({x \in uniq : \E y \in uniq : MeshPerp(x, y, perpendicular_tolerance)})
        b == SetMin({y \in uniq : MeshPerp(a, y, perpendicular_tolerance)})
    IN  <<a, b>>

family(h, a, b, tol) ==
    IF Abs(((h - a) + 180) % 180) * 1000 <= tol THEN "A"
    ELSE IF Abs(((h - b) + 180) % 180) * 1000 <= tol THEN "B"
    ELSE NoneStr

RECURSIVE MeshFamilies(_, _, _, _)
MeshFamilies(heads, a, b, tol) ==
    IF heads = <<>> THEN <<>>
    ELSE LET f == family(Head(heads), a, b, tol)
         IN  (IF f = NoneStr THEN <<>> ELSE <<f>>) \o MeshFamilies(Tail(heads), a, b, tol)

\* crossings: one for the first classified heading, one per change of family.
MeshCrossings(fams) ==
    Cardinality({i \in 1..Len(fams) : i = 1 \/ fams[i] # fams[i - 1]})

\* Lines 371-408: what detect_mesh does with a track that is long enough.
\* min_family_ratio is given in percent.
MeshMatch(track, perpendicular_tolerance, min_crossings, min_family_ratio) ==
    LET heads == MeshHeads(track)
        uniq == {heads[k] : k \in 1..Len(heads)}
    IN  IF heads = <<>> THEN FALSE
        ELSE IF ~(\E x \in uniq, y \in uniq : MeshPerp(x, y, perpendicular_tolerance))
             THEN FALSE
        ELSE
          LET pair == MeshFirstPair(uniq, perpendicular_tolerance)
              fams == MeshFamilies(heads, pair[1], pair[2], perpendicular_tolerance)
              nA == Cardinality({k \in 1..Len(fams) : fams[k] = "A"})
              nB == Cardinality({k \in 1..Len(fams) : fams[k] = "B"})
              total == nA + nB
          IN  IF total = 0 THEN FALSE
              ELSE IF nA * 100 < min_family_ratio * total
                      \/ nB * 100 < min_family_ratio * total THEN FALSE
              ELSE MeshCrossings(fams) >= min_crossings


\* detect_mesh letting through a track one point short.
detect_mesh_OneShort(track, min_points, perpendicular_tolerance, min_crossings, min_family_ratio) ==
    IF Len(track) + 1 < min_points THEN FALSE
    ELSE MeshMatch(track, perpendicular_tolerance, min_crossings, min_family_ratio)

detect_mesh(track, min_points, perpendicular_tolerance, min_crossings, min_family_ratio) ==
    IF Len(track) < min_points THEN FALSE
    ELSE MeshMatch(track, perpendicular_tolerance, min_crossings, min_family_ratio)

(***************************************************************************)
(* detect_anomalies.  The findings are returned as the set of their kinds  *)
(* (the strings of the source also carry the measured value).              *)
(***************************************************************************)

\* IsGround trusting the ground flag alone.
IsGround_FlagOnly(ac) == ac.ground = "True"

IsGround(ac) ==
    IF ac.ground = "True" THEN TRUE
    ELSE IF ac.alt_baro # None /\ ac.alt_baro <= 100 /\ (ac.gs = None \/ ac.gs < 60) THEN TRUE
    ELSE IF ac.alt_baro # None /\ ac.alt_baro <= 0 THEN TRUE
    ELSE FALSE

\* prev is <<>> (None) or <<previous Aircraft>>; dt_sec is None or seconds.
detect_anomalies(ac, prev, dt_sec, min_alt_ft, max_alt_ft, min_gs_kt, max_gs_kt, max_vs_fpm, max_dgs_kts) ==
    LET is_ground == IsGround(ac)
        squawk == IF ac.squawk \in {"7500", "7600", "7700"} THEN {"SQUAWK"} ELSE {}
        speed == IF ac.gs = None THEN {}
                 ELSE IF ac.gs > max_gs_kt THEN {"GS alta"}
                 ELSE IF ac.gs < min_gs_kt /\ ~is_ground THEN {"GS bassa"}
                 ELSE {}
        alt == IF ac.alt_baro = None THEN {}
               ELSE IF ac.alt_baro > max_alt_ft THEN {"ALT alta"}
               ELSE IF ac.alt_baro < min_alt_ft /\ ~is_ground /\ ac.alt_baro > 0
                    THEN {"ALT bassa"}
               ELSE {}
        delta == IF prev # <<>> /\ dt_sec # None /\ dt_sec # 0 /\ dt_sec > 0
                 THEN (IF ac.gs # None /\ prev[1].gs # None
                          /\ Abs(ac.gs - prev[1].gs) > max_dgs_kts
                       THEN {"dGS anomalo"} ELSE {})
                      \cup
                      (IF ac.alt_baro # None /\ prev[1].alt_baro # None
                          /\ Abs(ac.alt_baro - prev[1].alt_baro) * 60 > max_vs_fpm * dt_sec
                       THEN {"VS anomala"} ELSE {})
                 ELSE {}
    IN  squawk \cup speed \cup alt \cup delta

(***************************************************************************)
(* Proximity helpers.                                                      *)
(***************************************************************************)
\* same_direction taking an undefined heading for an aligned one.
same_direction_Lenient(h1, h2, tol_deg) ==
    IF h1 = None \/ h2 = None THEN TRUE
    ELSE angle_diff_deg(h1, h2) <= tol_deg

same_direction(h1, h2, tol_deg) ==
    IF h1 = None \/ h2 = None THEN FALSE
    ELSE angle_diff_deg(h1, h2) <= tol_deg


\* approx_following comparing the bearing with the leader's heading instead of
\* its reciprocal.
approx_following_Ahead(p_lead, h_lead, p_trail, h_trail, tol_deg) ==
    IF h_lead = None \/ h_trail = None THEN FALSE
    ELSE IF angle_diff_deg(h_lead, h_trail) > tol_deg THEN FALSE
    ELSE LET bt == heading(p_lead, p_trail)
         IN  IF bt = None THEN FALSE
             ELSE angle_diff_deg(h_lead, bt) <= tol_deg

approx_following(p_lead, h_lead, p_trail, h_trail, tol_deg) ==
    IF h_lead = None \/ h_trail = None THEN FALSE
    ELSE IF angle_diff_deg(h_lead, h_trail) > tol_deg THEN FALSE
    ELSE LET bt == heading(p_lead, p_trail)
         IN  IF bt = None THEN FALSE
             ELSE angle_diff_deg((h_lead + 180000) % 360000, bt) <= tol_deg

(***************************************************************************)
(* Python dictionaries: a function on the keys present.                    *)
(***************************************************************************)
\* d.get(k, default)
Get(d, k, default) == IF k \in DOMAIN d THEN d[k] ELSE default

\* d[k] = v
Put(d, k, v) == [x \in DOMAIN d \cup {k} |-> IF x = k THEN v ELSE d[x]]

EmptyDict == [x \in {} |-> 0]

\* deque(maxlen=...).append(x): the oldest entry is dropped when full.

\* DequeAppend refusing the new element when the deque is full.
DequeAppend_KeepOldest(dq, x) == IF Len(dq) >= TrackMaxLen THEN dq ELSE Append(dq, x)

DequeAppend(dq, x) ==
    IF Len(dq) >= TrackMaxLen THEN Tail(dq) \o <<x>> ELSE dq \o <<x>>


(***************************************************************************)
(* The program state.                                                      *)
(*   args        the parsed command line (thresholds, cooldowns, tunables) *)
(*   pc, i, j    where main() is in its cycle and the loop indices         *)
(*   clock       what time.time() returns                                  *)
(*   traffic     the Aircraft records the fetches can deliver in this run  *)
(*   aircraft    the cycle's list of Aircraft records                      *)
(*   event_rows  the cycle's list of event rows                            *)
(*   track_history, prev_state, last_*_alert, cur_head  as in main()       *)
(* History variables, read by no action:                                   *)
(*   fresh       the hexes whose prev_state entry was written during the   *)
(*               current cycle                                             *)
(*   n_seen      per hex, how many records with both lat and lon arrived,  *)
(*               counted up to TrackMaxLen + 1                             *)
(*   audit       per alert key, when its last alert was emitted, how many  *)
(*               checks were suppressed since (sup), and how many were     *)
(*               suppressed before that alert since the one before         *)
(*               (before); both counted up to 2                            *)
(*   det_track, det_out  the track and results of the detector harness     *)
(***************************************************************************)
VARIABLES args, traffic, pc, i, j, clock, aircraft, event_rows,
          track_history, prev_state,
          last_anom_alert, last_pattern_alert, last_prox_alert, last_mil_alert,
          cur_head, fresh, n_seen, audit, det_track, det_out, fn_in, fn_out

vars == <<args, traffic, pc, i, j, clock, aircraft, event_rows, track_history, prev_state,
          last_anom_alert, last_pattern_alert, last_prox_alert, last_mil_alert,
          cur_head, fresh, n_seen, audit, det_track, det_out, fn_in, fn_out>>

ledgers == <<last_anom_alert, last_pattern_alert, last_prox_alert, last_mil_alert>>

\* The input and the result of a function run on its own.
fnvars == <<fn_in, fn_out>>

detvars == <<det_track, det_out, fn_in, fn_out>>

history == <<fresh, n_seen, audit>>

Hexes == {"a", "b"}

(***************************************************************************)
(* Command lines.  Distances in millimetres, angles in millidegrees.       *)
(***************************************************************************)
BaseArgs ==
    [ min_alt_ft |-> 500, max_alt_ft |-> 60000, min_gs_kt |-> 35, max_gs_kt |-> 650,
      max_vs_fpm |-> 8000, max_dgs_kts |-> 250,
      proximity_km |-> 4000000, prox_angle_deg |-> 20000,
      prox_alt_diff_ft |-> 500, prox_gs_diff_kt |-> 40,
      anomaly_cooldown |-> 1, pattern_cooldown |-> 3, prox_cooldown |-> 2,
      mil_cooldown |-> 4,
      loop_min_points |-> 3, loop_close_km |-> 4000000, loop_min_span_km |-> 3000000,
      loop_min_laps |-> 1,
      lawn_min_points |-> 3, lawn_heading_tol |-> 15000, lawn_required_passes |-> 1,
      lawn_min_span_km |-> 3000000,
      mesh_min_points |-> 3, mesh_perp_tol |-> 15000, mesh_min_crossings |-> 2 ]

\* A second command line: other cooldowns, wider proximity limits, and
\* detectors that ask for no lap and no pass.
WideArgs ==
    [BaseArgs EXCEPT !.anomaly_cooldown = 2, !.pattern_cooldown = 2,
                     !.prox_cooldown = 3, !.mil_cooldown = 1,
                     !.proximity_km = 5000000, !.prox_angle_deg = 50000,
                     !.loop_min_laps = 0, !.lawn_required_passes = 0]

\* min_family_ratio of detect_mesh, in percent: main() leaves it at its default.
MeshMinFamilyRatio == 25

(***************************************************************************)
(* The cycle's input: the Aircraft records main() builds from the merged   *)
(* fetches.  Several records of one cycle may carry the same hex (the      *)
(* tiles overlap and fetch_military repeats aircraft), and lat or lon may  *)
(* be absent.  No polygons file is given (polygons = []).                  *)
(***************************************************************************)
Aircraft(hex, lat, lon, kind) ==
    [ hex |-> hex, lat |-> lat, lon |-> lon, alt_baro |-> 1000, gs |-> 100,
      ts |-> None,
      squawk |-> IF kind = "mil" THEN "7700" ELSE NoneStr,
      ground |-> NoneStr,
      is_mil |-> (kind = "mil") ]

\* Survey traffic: one military aircraft squawking 7700 anywhere on the grid,
\* and records of it that lack a coordinate.
SurveyPool ==
    {Aircraft("a", p[1], p[2], "mil") : p \in (0..MaxLat) \X (0..MaxLon)}
      \cup {Aircraft("a", None, MaxLon, "mil"), Aircraft("a", MaxLat, None, "mil")}

\* Formation traffic: a military aircraft squawking 7700 and a plain one on
\* one meridian, at non-zero coordinates.
FormationPool ==
    {Aircraft("a", lat, 1, "mil") : lat \in 1..FormMaxLat}
      \cup {Aircraft("b", lat, 1, "plain") : lat \in 1..FormMaxLat}

\* The runs explored: a command line and the traffic of the run.
Scenarios ==
    { [args |-> BaseArgs, traffic |-> SurveyPool],
      [args |-> WideArgs, traffic |-> FormationPool] }

Snapshots(pool) == UNION {[1..n -> pool] : n \in 0..MaxRecs}

(***************************************************************************)
(* main(): pattern selection, lines 619-639.                               *)
(***************************************************************************)

\* SelectPattern consulting the detectors in the order mesh, lawnmower, loop.
SelectPattern_MeshFirst(track, a) ==
    IF detect_mesh(track, a.mesh_min_points, a.mesh_perp_tol,
                   a.mesh_min_crossings, MeshMinFamilyRatio)
    THEN "MESH/RETICOLATO"
    ELSE IF detect_lawnmower(track, a.lawn_min_points, a.lawn_heading_tol,
                             a.lawn_required_passes, a.lawn_min_span_km)
         THEN "TAGLIAERBA"
    ELSE detect_loop_or_racetrack(track, a.loop_close_km, a.loop_min_points,
                                  a.loop_min_span_km, a.loop_min_laps)

SelectPattern(track, a) ==
    LET loop_type == detect_loop_or_racetrack(track, a.loop_close_km, a.loop_min_points,
                                              a.loop_min_span_km, a.loop_min_laps)
    IN  IF loop_type # NoneStr THEN loop_type
        ELSE IF detect_lawnmower(track, a.lawn_min_points, a.lawn_heading_tol,
                                 a.lawn_required_passes, a.lawn_min_span_km)
             THEN "TAGLIAERBA"
        ELSE IF detect_mesh(track, a.mesh_min_points, a.mesh_perp_tol,
                            a.mesh_min_crossings, MeshMinFamilyRatio)
             THEN "MESH/RETICOLATO"
        ELSE NoneStr

\* An event row; the fields that only serve logging are left out.
Row(event_type, hex, note, peer, dist, findings) ==
    [ event_type |-> event_type, hex |-> hex, note |-> note,
      peer |-> peer, dist |-> dist, findings |-> findings ]

(***************************************************************************)
(* The four cooldown tests of main(), as written at each call site.        *)
(* ...Ok is the test of an "if" that emits; ...Skip is the test of an "if"  *)
(* that ends in continue.                                                  *)
(***************************************************************************)
PatternCooldownOk(key, now_ts) ==
    now_ts - Get(last_pattern_alert, key, 0) >= args.pattern_cooldown

\* ProxCooldownSkip without the window.
ProxCooldownSkip_Never(key, now_ts) == FALSE

ProxCooldownSkip(key, now_ts) ==
    now_ts - Get(last_prox_alert, key, 0) < args.prox_cooldown


\* AnomalyCooldownOk without the window.
AnomalyCooldownOk_Always(hex, now_ts) == TRUE

AnomalyCooldownOk(hex, now_ts) ==
    now_ts - Get(last_anom_alert, hex, 0) >= args.anomaly_cooldown


\* MilCooldownSkip with the window's boundary on the wrong side.
MilCooldownSkip_Inclusive(hex, now_ts) ==
    now_ts - Get(last_mil_alert, hex, 0) <= args.mil_cooldown

MilCooldownSkip(hex, now_ts) ==
    now_ts - Get(last_mil_alert, hex, 0) < args.mil_cooldown

(***************************************************************************)
(* The four dictionaries after a check: the assignment last[key] = now_ts  *)
(* stands inside the branch that emits the alert.                          *)
(***************************************************************************)
PatternMark(ok, key, now_ts) ==
    IF ok THEN Put(last_pattern_alert, key, now_ts) ELSE last_pattern_alert

ProxMark(ok, key, now_ts) ==
    IF ok THEN Put(last_prox_alert, key, now_ts) ELSE last_prox_alert


\* AnomalyMark restarting the window at every check.
AnomalyMark_EveryCheck(ok, hex, now_ts) == Put(last_anom_alert, hex, now_ts)

\* AnomalyMark never writing the ledger.
AnomalyMark_Never(ok, hex, now_ts) == last_anom_alert

AnomalyMark(ok, hex, now_ts) ==
    IF ok THEN Put(last_anom_alert, hex, now_ts) ELSE last_anom_alert

MilMark(ok, hex, now_ts) ==
    IF ok THEN Put(last_mil_alert, hex, now_ts) ELSE last_mil_alert

(***************************************************************************)
(* Init: the state when the while loop is entered.                         *)
(***************************************************************************)
Init ==
    /\ \E s \in Scenarios : args = s.args /\ traffic = s.traffic
    /\ pc = "fetch"
    /\ i = 0
    /\ j = 0
    /\ clock = StartTime
    /\ aircraft = <<>>
    /\ event_rows = <<>>
    /\ track_history = [h \in Hexes |-> <<>>]
    /\ prev_state = EmptyDict
    /\ last_anom_alert = EmptyDict
    /\ last_pattern_alert = EmptyDict
    /\ last_prox_alert = EmptyDict
    /\ last_mil_alert = EmptyDict
    /\ cur_head = EmptyDict
    /\ fresh = {}
    /\ n_seen = [h \in Hexes |-> 0]
    /\ audit = EmptyDict
    /\ det_track = <<>>
    /\ det_out = <<>>
    /\ fn_in = <<>>
    /\ fn_out = <<>>

\* The history variable audit after a cooldown check of key k at time now_ts.
AuditCheck(k, ok, now_ts) ==
    IF ok
    THEN Put(audit, k, [at |-> now_ts, sup |-> 0,
                        before |-> IF k \in DOMAIN audit THEN audit[k].sup ELSE 0])
    ELSE IF k \in DOMAIN audit
    THEN Put(audit, k, [audit[k] EXCEPT !.sup = Min2(2, audit[k].sup + 1)])
    ELSE audit

\* Lines 570-610: fetch, build the Aircraft list, start an empty row list.
Fetch ==
    /\ pc = "fetch"
    /\ \E snap \in Snapshots(traffic) : aircraft' = snap
    /\ event_rows' = <<>>
    /\ fresh' = {}
    /\ pc' = "pattern"
    /\ i' = 1
    /\ j' = 0
    /\ UNCHANGED <<args, traffic, clock, track_history, prev_state, ledgers, cur_head,
                   n_seen, audit, detvars>>

\* Lines 613-676: one iteration of the TRACK & PATTERN loop.
PatternStep ==
    /\ pc = "pattern"
    /\ i <= Len(aircraft)
    /\ LET ac == aircraft[i]
       IN  IF ac.lat = None \/ ac.lon = None
           THEN UNCHANGED <<track_history, event_rows, last_pattern_alert, n_seen, audit>>
           ELSE
             LET track == DequeAppend(track_history[ac.hex], <<ac.lat, ac.lon>>)
                 pattern == SelectPattern(track, args)
                 key == <<ac.hex, pattern>>
                 now_ts == clock
                 ok == pattern # NoneStr /\ PatternCooldownOk(key, now_ts)
             IN  /\ track_history' = [track_history EXCEPT ![ac.hex] = track]
                 /\ n_seen' = [n_seen EXCEPT ![ac.hex] = Min2(TrackMaxLen + 1, @ + 1)]
                 /\ event_rows' = IF ok
                                  THEN Append(event_rows,
                                         Row("PATTERN", ac.hex, pattern, "", 0, {}))
                                  ELSE event_rows
                 /\ last_pattern_alert' = PatternMark(ok, key, now_ts)
                 /\ audit' = IF pattern # NoneStr
                             THEN AuditCheck(<<"PATTERN">> \o key, ok, now_ts)
                             ELSE audit
    /\ i' = i + 1
    /\ UNCHANGED <<args, traffic, pc, j, clock, aircraft, prev_state, last_anom_alert,
                   last_prox_alert, last_mil_alert, cur_head, fresh, detvars>>

\* Where main() goes once the pair loops are over (or empty).
AfterProx(n) == IF n >= 1 THEN "anomaly" ELSE "sleep"

\* Lines 679-682: the current heading of every aircraft of the list, from the
\* last two points of its history.
ProxHeads ==
    /\ pc = "pattern"
    /\ i > Len(aircraft)
    /\ cur_head' = [h \in {aircraft[k].hex : k \in 1..Len(aircraft)} |->
                      LET th == track_history[h]
                      IN  IF Len(th) >= 2 THEN heading(th[Len(th) - 1], th[Len(th)])
                          ELSE None]
    /\ IF Len(aircraft) >= 2
       THEN pc' = "prox" /\ i' = 1 /\ j' = 2
       ELSE pc' = AfterProx(Len(aircraft)) /\ i' = 1 /\ j' = 0
    /\ UNCHANGED <<args, traffic, clock, aircraft, event_rows, track_history, prev_state,
                   ledgers, history, detvars>>

\* Python truthiness of "ac.lat and ac.lon": None and 0.0 are both false.
LatLonTruthy(ac) == ac.lat # None /\ ac.lat # 0 /\ ac.lon # None /\ ac.lon # 0

\* sorted([hex1, hex2]) for the hexes of the model.
SortedHexes(hex1, hex2) ==
    IF hex1 = hex2 \/ hex1 = "a" THEN <<hex1, hex2>> ELSE <<hex2, hex1>>

\* tuple(sorted([ac1.hex, ac2.hex]) + [label])

\* ProxKey without the label: one key for both proximity labels of a pair.
ProxKey_NoLabel(hex1, hex2, label) == SortedHexes(hex1, hex2) \o <<"">>

ProxKey(hex1, hex2, label) == SortedHexes(hex1, hex2) \o <<label>>

\* Lines 703-710: the three checks of a pair within the proximity radius.
ProxChecks(ac1, ac2, h1, h2) ==
    LET alt_ok == /\ ac1.alt_baro # None /\ ac2.alt_baro # None
                  /\ Abs(ac1.alt_baro - ac2.alt_baro) <= args.prox_alt_diff_ft
        gs_ok == /\ ac1.gs # None /\ ac2.gs # None
                 /\ Abs(ac1.gs - ac2.gs) <= args.prox_gs_diff_kt
        dir_ok == same_direction(h1, h2, args.prox_angle_deg)
    IN  alt_ok /\ gs_ok /\ dir_ok

\* Lines 712-715.

\* ProxLabel asking only whether the second aircraft follows the first.
ProxLabel_OneWay(p1, h1, p2, h2) ==
    IF approx_following(p1, h1, p2, h2, args.prox_angle_deg)
    THEN "INSEGUIMENTO" ELSE "CLUSTER"

ProxLabel(p1, h1, p2, h2) ==
    IF approx_following(p1, h1, p2, h2, args.prox_angle_deg)
       \/ approx_following(p2, h2, p1, h1, args.prox_angle_deg)
    THEN "INSEGUIMENTO" ELSE "CLUSTER"

\* Lines 685-715: what the pair loops find for the pair (ac1, ac2) with current
\* headings h1, h2: "CLUSTER", "INSEGUIMENTO", or NoneStr when the pair is
\* skipped by one of the continue statements.
ProxFinding(ac1, ac2, h1, h2) ==
    IF ~LatLonTruthy(ac1) THEN NoneStr
    ELSE IF ~LatLonTruthy(ac2) THEN NoneStr
    ELSE IF ac1.hex = ac2.hex THEN NoneStr
    ELSE IF haversine_km(<<ac1.lat, ac1.lon>>, <<ac2.lat, ac2.lon>>) >= args.proximity_km
         THEN NoneStr
    ELSE IF ~ProxChecks(ac1, ac2, h1, h2) THEN NoneStr
    ELSE ProxLabel(<<ac1.lat, ac1.lon>>, h1, <<ac2.lat, ac2.lon>>, h2)

\* Lines 684-762: the body of the pair loops for the pair (i, j).
ProxStep ==
    /\ pc = "prox"
    /\ j <= Len(aircraft)
    /\ LET ac1 == aircraft[i]
           ac2 == aircraft[j]
           h1 == Get(cur_head, ac1.hex, None)
           h2 == Get(cur_head, ac2.hex, None)
           label == ProxFinding(ac1, ac2, h1, h2)
           key == ProxKey(ac1.hex, ac2.hex, label)
           now_ts == clock
           ok == label # NoneStr /\ ~ProxCooldownSkip(key, now_ts)
       IN  /\ event_rows' =
                IF ok
                THEN LET dist == haversine_km(<<ac1.lat, ac1.lon>>, <<ac2.lat, ac2.lon>>)
                     IN  event_rows \o
                           << Row("PROX", ac1.hex, label, ac2.hex, dist, {}),
                              Row("PROX", ac2.hex, label, ac1.hex, dist, {}) >>
                ELSE event_rows
           /\ last_prox_alert' = ProxMark(ok, key, now_ts)
           /\ audit' = IF label # NoneStr
                       THEN AuditCheck(<<"PROX">> \o key, ok, now_ts)
                       ELSE audit
    /\ IF j < Len(aircraft) THEN pc' = pc /\ i' = i /\ j' = j + 1
       ELSE IF i + 2 <= Len(aircraft) THEN pc' = pc /\ i' = i + 1 /\ j' = i + 2
       ELSE pc' = "anomaly" /\ i' = 1 /\ j' = 0
    /\ UNCHANGED <<args, traffic, clock, aircraft, track_history, prev_state,
                   last_anom_alert, last_pattern_alert, last_mil_alert, cur_head,
                   fresh, n_seen, detvars>>

\* Lines 766-772: the elapsed seconds handed to detect_anomalies.
DtSec(ac, prev) ==
    IF prev # <<>> /\ ac.ts # None /\ ac.ts # 0 /\ prev[1].ts # None /\ prev[1].ts # 0
    THEN Max2(0, ac.ts - prev[1].ts)
    ELSE None

\* prev_state.get(ac.hex), as <<>> or <<Aircraft>>.
PrevOf(hex) == IF hex \in DOMAIN prev_state THEN <<prev_state[hex]>> ELSE <<>>

Anomalies(ac, prev) ==
    detect_anomalies(ac, prev, DtSec(ac, prev),
                     args.min_alt_ft, args.max_alt_ft, args.min_gs_kt, args.max_gs_kt,
                     args.max_vs_fpm, args.max_dgs_kts)

\* Lines 765-817: one iteration of the ANOMALY loop.
AnomalyStep ==
    /\ pc = "anomaly"
    /\ i <= Len(aircraft)
    /\ LET ac == aircraft[i]
           prev == PrevOf(ac.hex)
           anomalies == Anomalies(ac, prev)
           now_ts == clock
           ok == anomalies # {} /\ AnomalyCooldownOk(ac.hex, now_ts)
       IN  /\ event_rows' = IF ok
                            THEN Append(event_rows,
                                   Row("ANOMALY", ac.hex, "ANOMALY", "", 0, anomalies))
                            ELSE event_rows
           /\ last_anom_alert' = AnomalyMark(ok, ac.hex, now_ts)
           /\ prev_state' = Put(prev_state, ac.hex, ac)
           /\ fresh' = fresh \cup {ac.hex}
           /\ audit' = IF anomalies # {}
                       THEN AuditCheck(<<"ANOMALY", ac.hex>>, ok, now_ts)
                       ELSE audit
    /\ IF i < Len(aircraft) THEN pc' = pc /\ i' = i + 1
       ELSE pc' = "mil" /\ i' = 1
    /\ UNCHANGED <<args, traffic, j, clock, aircraft, track_history, last_pattern_alert,
                   last_prox_alert, last_mil_alert, cur_head, n_seen, detvars>>

\* Lines 820-860: one iteration of the MIL loop.
MilStep ==
    /\ pc = "mil"
    /\ i <= Len(aircraft)
    /\ LET ac == aircraft[i]
           now_ts == clock
           ok == ac.is_mil /\ ~MilCooldownSkip(ac.hex, now_ts)
       IN  /\ event_rows' = IF ok
                            THEN Append(event_rows, Row("MIL", ac.hex, "MIL", "", 0, {}))
                            ELSE event_rows
           /\ last_mil_alert' = MilMark(ok, ac.hex, now_ts)
           /\ audit' = IF ac.is_mil
                       THEN AuditCheck(<<"MIL", ac.hex>>, ok, now_ts)
                       ELSE audit
    /\ IF i < Len(aircraft) THEN pc' = pc /\ i' = i + 1
       ELSE pc' = "sleep" /\ i' = 0
    /\ UNCHANGED <<args, traffic, j, clock, aircraft, track_history, prev_state,
                   last_anom_alert, last_pattern_alert, last_prox_alert, cur_head,
                   fresh, n_seen, detvars>>

\* Line 867: time.sleep(max(1, ...)): at least one second passes.
Sleep ==
    /\ pc = "sleep"
    /\ \E d \in 1..MaxSleep : clock + d <= MaxTime /\ clock' = clock + d
    /\ pc' = "fetch"
    /\ UNCHANGED <<args, traffic, i, j, aircraft, event_rows, track_history, prev_state,
                   ledgers, cur_head, history, detvars>>

\* Time passes while a cycle runs.
Tick ==
    /\ pc \in {"pattern", "prox", "anomaly", "mil"}
    /\ clock < MaxTime
    /\ clock' = clock + 1
    /\ UNCHANGED <<args, traffic, pc, i, j, aircraft, event_rows, track_history,
                   prev_state, ledgers, cur_head, history, detvars>>

Next ==
    \/ Fetch
    \/ PatternStep
    \/ ProxHeads
    \/ ProxStep
    \/ AnomalyStep
    \/ MilStep
    \/ Sleep
    \/ Tick

Spec == Init /\ [][Next]_vars

(***************************************************************************)
(* The same cycle on traffic whose findings change from cycle to cycle:    *)
(* one aircraft that is slow at one position, squawks 7700 at another and  *)
(* shows nothing at a third, under anomaly windows of two and three        *)
(* seconds.                                                                *)
(***************************************************************************)
AlertPool ==
    { [Aircraft("a", 1, 1, "plain") EXCEPT !.gs = 20],
      [Aircraft("a", 2, 1, "plain") EXCEPT !.squawk = "7700"],
      Aircraft("a", 1, 2, "plain") }

AlertConfigs == { [WideArgs EXCEPT !.anomaly_cooldown = c] : c \in {2, 3} }

AlertInit ==
    /\ args \in AlertConfigs
    /\ traffic = AlertPool
    /\ pc = "fetch"
    /\ i = 0
    /\ j = 0
    /\ clock = StartTime
    /\ aircraft = <<>>
    /\ event_rows = <<>>
    /\ track_history = [h \in Hexes |-> <<>>]
    /\ prev_state = EmptyDict
    /\ last_anom_alert = EmptyDict
    /\ last_pattern_alert = EmptyDict
    /\ last_prox_alert = EmptyDict
    /\ last_mil_alert = EmptyDict
    /\ cur_head = EmptyDict
    /\ fresh = {}
    /\ n_seen = [h \in Hexes |-> 0]
    /\ audit = EmptyDict
    /\ det_track = <<>>
    /\ det_out = <<>>
    /\ fn_in = <<>>
    /\ fn_out = <<>>

SpecAlert == AlertInit /\ [][Next]_vars


(***************************************************************************)
(* The detector harness: a track is built point by point and handed to the *)
(* three detectors and to the pattern selection of main(), under command   *)
(* lines that vary the detectors' tunables.                                *)
(***************************************************************************)
DetGrid == (0..DetMaxLat) \X (0..DetMaxLon)

DetConfigs ==
    { [BaseArgs EXCEPT !.loop_min_points = m, !.lawn_min_points = m,
                       !.mesh_min_points = m,
                       !.loop_close_km = c,
                       !.loop_min_laps = l, !.lawn_required_passes = l,
                       !.mesh_min_crossings = l + 1,
                       !.lawn_heading_tol = t, !.mesh_perp_tol = t]
        : m \in (DetMaxLen - 1)..DetMaxLen, c \in {4000000, 8000000},
          l \in 0..2, t \in {15000, 50000} }

DetInit ==
    /\ args \in DetConfigs
    /\ traffic = {}
    /\ pc = "det"
    /\ i = 0
    /\ j = 0
    /\ clock = StartTime
    /\ aircraft = <<>>
    /\ event_rows = <<>>
    /\ track_history = [h \in Hexes |-> <<>>]
    /\ prev_state = EmptyDict
    /\ last_anom_alert = EmptyDict
    /\ last_pattern_alert = EmptyDict
    /\ last_prox_alert = EmptyDict
    /\ last_mil_alert = EmptyDict
    /\ cur_head = EmptyDict
    /\ fresh = {}
    /\ n_seen = [h \in Hexes |-> 0]
    /\ audit = EmptyDict
    /\ det_track = <<>>
    /\ det_out = <<>>
    /\ fn_in = <<>>
    /\ fn_out = <<>>

mainvars == <<args, traffic, pc, i, j, clock, aircraft, event_rows, track_history,
              prev_state, ledgers, cur_head, history>>

\* A further position arrives.
DetExtend ==
    /\ pc = "det"
    /\ det_out = <<>>
    /\ Len(det_track) < DetMaxLen
    /\ \E p \in DetGrid : det_track' = Append(det_track, p)
    /\ UNCHANGED <<mainvars, det_out, fnvars>>

\* The detectors and the selection of lines 619-639 run on the track.
DetClassify ==
    /\ pc = "det"
    /\ det_out = <<>>
    /\ det_track # <<>>
    /\ det_out' = << [ loop |-> detect_loop_or_racetrack(det_track, args.loop_close_km,
                                   args.loop_min_points, args.loop_min_span_km,
                                   args.loop_min_laps),
                       lawn |-> detect_lawnmower(det_track, args.lawn_min_points,
                                   args.lawn_heading_tol, args.lawn_required_passes,
                                   args.lawn_min_span_km),
                       mesh |-> detect_mesh(det_track, args.mesh_min_points,
                                   args.mesh_perp_tol, args.mesh_min_crossings,
                                   MeshMinFamilyRatio),
                       pattern |-> SelectPattern(det_track, args) ] >>
    /\ UNCHANGED <<mainvars, det_track, fnvars>>

DetNext ==
    \/ DetExtend
    \/ DetClassify

SpecDet == DetInit /\ [][DetNext]_vars

(***************************************************************************)
(* The loop harness: the detector harness on a grid wide enough for a      *)
(* bounding box of three steps by two, under command lines that vary the   *)
(* tunables of detect_loop_or_racetrack.                                   *)
(***************************************************************************)
LoopGrid == (0..LoopMaxLat) \X (0..LoopMaxLon)

LoopConfigs ==
    { [BaseArgs EXCEPT !.loop_close_km = c, !.loop_min_laps = l, !.loop_min_span_km = sp]
        : c \in {4000000, 12000000}, l \in 0..2, sp \in {3000000, 8000000} }

LoopInit ==
    /\ args \in LoopConfigs
    /\ traffic = {}
    /\ pc = "det"
    /\ i = 0
    /\ j = 0
    /\ clock = StartTime
    /\ aircraft = <<>>
    /\ event_rows = <<>>
    /\ track_history = [h \in Hexes |-> <<>>]
    /\ prev_state = EmptyDict
    /\ last_anom_alert = EmptyDict
    /\ last_pattern_alert = EmptyDict
    /\ last_prox_alert = EmptyDict
    /\ last_mil_alert = EmptyDict
    /\ cur_head = EmptyDict
    /\ fresh = {}
    /\ n_seen = [h \in Hexes |-> 0]
    /\ audit = EmptyDict
    /\ det_track = <<>>
    /\ det_out = <<>>
    /\ fn_in = <<>>
    /\ fn_out = <<>>

\* A further position arrives.
LoopExtend ==
    /\ pc = "det"
    /\ det_out = <<>>
    /\ Len(det_track) < LoopMaxLen
    /\ \E p \in LoopGrid : det_track' = Append(det_track, p)
    /\ UNCHANGED <<mainvars, det_out, fnvars>>

LoopNext ==
    \/ LoopExtend
    \/ DetClassify

SpecLoop == LoopInit /\ [][LoopNext]_vars


(***************************************************************************)
(* The proximity harness: the body of the pair loops of main() run on one  *)
(* pair of Aircraft records and their current headings, taken in both      *)
(* orders.                                                                 *)
(***************************************************************************)
ProxCoords == 0..ProxMaxCoord

\* The first record of the pair: hex "a", with or without an altitude.
ProxFirst ==
    { [Aircraft("a", lat, lon, "plain") EXCEPT !.alt_baro = alt]
        : lat \in ProxCoords \cup {None}, lon \in ProxCoords, alt \in {None, 1000} }

\* The second record: hex "a" or "b", altitudes 400 and 600 ft above, ground
\* speeds 30 and 50 kt above or unknown.
ProxSecond ==
    { [Aircraft(hex, lat, lon, "plain") EXCEPT !.alt_baro = alt, !.gs = gs]
        : hex \in Hexes, lat \in ProxCoords \cup {None}, lon \in ProxCoords,
          alt \in {1400, 1600}, gs \in {None, 130, 150} }

\* Current headings, as cur_head holds them: None or millidegrees.
ProxHeadings == {None, 0, 90000, 100000, 180000, 270000}

ProxInit ==
    /\ args \in {BaseArgs, WideArgs}
    /\ traffic = {}
    /\ pc = "pair"
    /\ i = 0
    /\ j = 0
    /\ clock = StartTime
    /\ aircraft = <<>>
    /\ event_rows = <<>>
    /\ track_history = [h \in Hexes |-> <<>>]
    /\ prev_state = EmptyDict
    /\ last_anom_alert = EmptyDict
    /\ last_pattern_alert = EmptyDict
    /\ last_prox_alert = EmptyDict
    /\ last_mil_alert = EmptyDict
    /\ cur_head = EmptyDict
    /\ fresh = {}
    /\ n_seen = [h \in Hexes |-> 0]
    /\ audit = EmptyDict
    /\ det_track = <<>>
    /\ det_out = <<>>
    /\ fn_in = <<>>
    /\ fn_out = <<>>

\* A pair of records of the cycle's list and their entries of cur_head.
ProxPair ==
    /\ pc = "pair"
    /\ fn_in = <<>>
    /\ \E ac1 \in ProxFirst, ac2 \in ProxSecond, h1 \in ProxHeadings, h2 \in ProxHeadings :
          fn_in' = << [ac1 |-> ac1, ac2 |-> ac2, h1 |-> h1, h2 |-> h2] >>
    /\ UNCHANGED <<mainvars, det_track, det_out, fn_out>>

\* Lines 685-717 for the pair as (ac1, ac2) and as (ac2, ac1): the finding and
\* the key of last_prox_alert.
ProxEval ==
    /\ pc = "pair"
    /\ fn_in # <<>>
    /\ fn_out = <<>>
    /\ LET x == fn_in[1]
           ab == ProxFinding(x.ac1, x.ac2, x.h1, x.h2)
           ba == ProxFinding(x.ac2, x.ac1, x.h2, x.h1)
       IN  fn_out' = << [ ab |-> ab, ba |-> ba,
                          key_ab |-> ProxKey(x.ac1.hex, x.ac2.hex, ab),
                          key_ba |-> ProxKey(x.ac2.hex, x.ac1.hex, ba) ] >>
    /\ UNCHANGED <<mainvars, det_track, det_out, fn_in>>

ProxNext ==
    \/ ProxPair
    \/ ProxEval

SpecProx == ProxInit /\ [][ProxNext]_vars

(***************************************************************************)
(* The proximity harness with track histories: the pair's current headings *)
(* are derived, as in lines 679-682, from the histories the TRACK phase    *)
(* leaves, which end with the record's position when it has one.           *)
(***************************************************************************)
\* cur_head[hex] for an aircraft whose history is th.
CurHead(th) ==
    IF Len(th) >= 2 THEN heading(th[Len(th) - 1], th[Len(th)]) ELSE None

\* What the history held before the cycle: nothing, or one earlier point.
ProxPrevious == {<<>>} \cup {<<p>> : p \in ProxCoords \X (0..ProxPrevMaxLon)}

\* The history after line 616 of the cycle.
HistoryAfter(prev, ac) ==
    IF ac.lat = None \/ ac.lon = None THEN prev
    ELSE prev \o << <<ac.lat, ac.lon>> >>

ProxHistPair ==
    /\ pc = "pair"
    /\ fn_in = <<>>
    /\ \E ac1 \in ProxFirst, ac2 \in ProxSecond, prev1 \in ProxPrevious, prev2 \in ProxPrevious :
          LET th1 == HistoryAfter(prev1, ac1)
              th2 == HistoryAfter(prev2, ac2)
          IN  fn_in' = << [ac1 |-> ac1, ac2 |-> ac2, th1 |-> th1, th2 |-> th2,
                           h1 |-> CurHead(th1), h2 |-> CurHead(th2)] >>
    /\ UNCHANGED <<mainvars, det_track, det_out, fn_out>>

ProxHistNext ==
    \/ ProxHistPair
    \/ ProxEval

SpecProxHist == ProxInit /\ [][ProxHistNext]_vars


(***************************************************************************)
(* The anomaly harness: one iteration of the ANOMALY loop up to the call   *)
(* of detect_anomalies, on one Aircraft record and one entry of            *)
(* prev_state, under several settings of the thresholds.                   *)
(***************************************************************************)
\* Command lines: the default thresholds, tighter cycle-to-cycle thresholds,
\* and thresholds given with the minimum above the maximum.
AnomConfigs ==
    { BaseArgs,
      [BaseArgs EXCEPT !.max_vs_fpm = 5000, !.max_dgs_kts = 100],
      [BaseArgs EXCEPT !.min_gs_kt = 400, !.max_gs_kt = 250,
                       !.min_alt_ft = 20000, !.max_alt_ft = 10000] }

\* The current record: speed, altitude, ground flag, squawk and timestamp.
AnomCurrent ==
    { [Aircraft("a", 1, 1, "plain") EXCEPT !.gs = gs, !.alt_baro = alt, !.ground = ground,
                                           !.squawk = squawk, !.ts = ts]
        : gs \in {None, 10, 300, 500, 700},
          alt \in {None, -10, 0, 50, 300, 15000, 70000},
          ground \in {"True", "False", NoneStr},
          squawk \in {NoneStr, "1200", "7500", "7700"},
          ts \in {None, 0, 60, 180} }

\* prev_state.get(hex): nothing, or the record kept.
AnomPrevious ==
    { <<>> } \cup
    { << [Aircraft("a", 1, 1, "plain") EXCEPT !.gs = gs, !.alt_baro = alt, !.ts = ts] >>
        : gs \in {None, 200}, alt \in {None, 1000}, ts \in {None, 0, 60, 120} }

AnomInit ==
    /\ args \in AnomConfigs
    /\ traffic = {}
    /\ pc = "classify"
    /\ i = 0
    /\ j = 0
    /\ clock = StartTime
    /\ aircraft = <<>>
    /\ event_rows = <<>>
    /\ track_history = [h \in Hexes |-> <<>>]
    /\ prev_state = EmptyDict
    /\ last_anom_alert = EmptyDict
    /\ last_pattern_alert = EmptyDict
    /\ last_prox_alert = EmptyDict
    /\ last_mil_alert = EmptyDict
    /\ cur_head = EmptyDict
    /\ fresh = {}
    /\ n_seen = [h \in Hexes |-> 0]
    /\ audit = EmptyDict
    /\ det_track = <<>>
    /\ det_out = <<>>
    /\ fn_in = <<>>
    /\ fn_out = <<>>

\* A record of the cycle's list and what prev_state holds for its hex.
AnomRecord ==
    /\ pc = "classify"
    /\ fn_in = <<>>
    /\ \E ac \in AnomCurrent, prev \in AnomPrevious :
          fn_in' = << [ac |-> ac, prev |-> prev] >>
    /\ UNCHANGED <<mainvars, det_track, det_out, fn_out>>

\* Lines 766-779 and detect_anomalies: the elapsed seconds, the grounded
\* determination and the kinds found.
AnomEval ==
    /\ pc = "classify"
    /\ fn_in # <<>>
    /\ fn_out = <<>>
    /\ fn_out' = << [ dt_sec |-> DtSec(fn_in[1].ac, fn_in[1].prev),
                      is_ground |-> IsGround(fn_in[1].ac),
                      anomalies |-> Anomalies(fn_in[1].ac, fn_in[1].prev) ] >>
    /\ UNCHANGED <<mainvars, det_track, det_out, fn_in>>

AnomNext ==
    \/ AnomRecord
    \/ AnomEval

SpecAnom == AnomInit /\ [][AnomNext]_vars


(***************************************************************************)
(* The normalizer harness: lines 577-604 run on a merged list of raw       *)
(* records.  A raw field is absent (or null), a number, or a string that   *)
(* is no number; an element of the list is a JSON object or something      *)
(* else.                                                                   *)
(***************************************************************************)
RawNone == [tag |-> "none", v |-> 0]
RawNum(n) == [tag |-> "num", v |-> n]
RawBad == [tag |-> "bad", v |-> 0]

\* int(val) / float(val) with TypeError and ValueError caught.
safe_int(val) == IF val.tag = "num" THEN val.v ELSE None

safe_float(val) == IF val.tag = "num" THEN val.v ELSE None

\* isinstance(val, bool), else the strings true / 1 / yes and false / 0 / no.
safe_bool(val) ==
    IF val.tag = "num" /\ val.v = 1 THEN "True"
    ELSE IF val.tag = "num" /\ val.v = 0 THEN "False"
    ELSE NoneStr

\* Python truthiness of a raw field.
RawTruthy(val) == val.tag = "bad" \/ (val.tag = "num" /\ val.v # 0)

\* a or b
RawOr(a, b) == IF RawTruthy(a) THEN a ELSE b

\* The raw records the fetches deliver: objects whose numeric fields are
\* absent, numbers or strings that are no numbers, and one element that is
\* no object.
RawPool ==
    { [ kind |-> "object", hex |-> "a", lat |-> lat, lon |-> lon, alt_baro |-> alt,
        gs |-> gs, seen_pos_timestamp |-> spt, seen_timestamp |-> st,
        squawk |-> RawNone, ground |-> ground, force_mil |-> FALSE ]
        : lat \in {RawNone, RawNum(1), RawBad}, lon \in {RawNum(1), RawBad},
          alt \in {RawNone, RawNum(1000), RawBad}, gs \in {RawNum(100), RawBad},
          spt \in {RawNone, RawNum(60), RawBad}, st \in {RawNone, RawNum(30)},
          ground \in {RawNone, RawNum(1)} }
      \cup
    { [ kind |-> "other", hex |-> "b", lat |-> RawNone, lon |-> RawNone,
        alt_baro |-> RawNone, gs |-> RawNone, seen_pos_timestamp |-> RawNone,
        seen_timestamp |-> RawNone, squawk |-> RawNone, ground |-> RawNone,
        force_mil |-> FALSE ] }

\* Lines 580-600: the Aircraft built from a raw object.
NormalizeRecord(raw) ==
    [ hex |-> raw.hex,
      lat |-> safe_float(raw.lat),
      lon |-> safe_float(raw.lon),
      alt_baro |-> safe_int(raw.alt_baro),
      gs |-> safe_float(raw.gs),
      ts |-> safe_float(RawOr(raw.seen_pos_timestamp, raw.seen_timestamp)),
      squawk |-> NoneStr,
      ground |-> safe_bool(raw.ground),
      is_mil |-> raw.force_mil ]

\* Lines 577-604: the list of Aircraft, each with the index of the raw record
\* it stems from; an element on which the construction raises is skipped.
RECURSIVE NormalizeFrom(_, _)
NormalizeFrom(merged, k) ==
    IF k > Len(merged) THEN <<>>
    ELSE (IF merged[k].kind # "object" THEN <<>>
          ELSE << [from |-> k, ac |-> NormalizeRecord(merged[k])] >>)
            \o NormalizeFrom(merged, k + 1)

NormInit ==
    /\ args = BaseArgs
    /\ traffic = {}
    /\ pc = "normalize"
    /\ i = 0
    /\ j = 0
    /\ clock = StartTime
    /\ aircraft = <<>>
    /\ event_rows = <<>>
    /\ track_history = [h \in Hexes |-> <<>>]
    /\ prev_state = EmptyDict
    /\ last_anom_alert = EmptyDict
    /\ last_pattern_alert = EmptyDict
    /\ last_prox_alert = EmptyDict
    /\ last_mil_alert = EmptyDict
    /\ cur_head = EmptyDict
    /\ fresh = {}
    /\ n_seen = [h \in Hexes |-> 0]
    /\ audit = EmptyDict
    /\ det_track = <<>>
    /\ det_out = <<>>
    /\ fn_in = <<>>
    /\ fn_out = <<>>

\* Lines 571-575: the merged list of the cycle.
NormMerge ==
    /\ pc = "normalize"
    /\ fn_in = <<>>
    /\ \E n \in 0..NormMaxRecs : \E merged \in [1..n -> RawPool] : fn_in' = <<merged>>
    /\ UNCHANGED <<mainvars, det_track, det_out, fn_out>>

\* Lines 577-604.
NormBuild ==
    /\ pc = "normalize"
    /\ fn_in # <<>>
    /\ fn_out = <<>>
    /\ fn_out' = << NormalizeFrom(fn_in[1], 1) >>
    /\ UNCHANGED <<mainvars, det_track, det_out, fn_in>>

NormNext ==
    \/ NormMerge
    \/ NormBuild

SpecNorm == NormInit /\ [][NormNext]_vars

(***************************************************************************)
(* The rate guard: processes that share the lockfile /tmp/adsbfi_api.lock  *)
(* and fetch (fetch_tile or fetch_military, which differ only in the URL   *)
(* and in the decoding of the answer).  Here clock counts ticks of 0.05 s. *)
(* fn_in holds the lockfile and the processes; fn_out the requests and     *)
(* passes seen so far.  A sleep lasts at least as long as asked; anything  *)
(* else may take any time, a failing request as little as none.            *)
(***************************************************************************)
\* 1.05 s, 1 s, HTTP_BACKOFF = 2.0 s in ticks; HTTP_RETRIES.
GuardGap == 21
OneSecond == 20
HTTP_BACKOFF == 40
HTTP_RETRIES == 2

Procs == 1..GuardProcs

\* Steps by which the time is seen to advance.
GuardAdvance == {19, 40}

guardrest == <<args, traffic, pc, i, j, aircraft, event_rows, track_history, prev_state,
               ledgers, cur_head, history, det_track, det_out>>

\* The lockfile is empty (last = 0.0) or holds the stamp of an earlier pass.
GuardInit ==
    /\ args = BaseArgs
    /\ traffic = {}
    /\ pc = "guard"
    /\ i = 0
    /\ j = 0
    /\ clock = GuardGap
    /\ aircraft = <<>>
    /\ event_rows = <<>>
    /\ track_history = [h \in Hexes |-> <<>>]
    /\ prev_state = EmptyDict
    /\ last_anom_alert = EmptyDict
    /\ last_pattern_alert = EmptyDict
    /\ last_prox_alert = EmptyDict
    /\ last_mil_alert = EmptyDict
    /\ cur_head = EmptyDict
    /\ fresh = {}
    /\ n_seen = [h \in Hexes |-> 0]
    /\ audit = EmptyDict
    /\ det_track = <<>>
    /\ det_out = <<>>
    /\ \E stamp \in {0, GuardGap - 5} :
          fn_in = << [ holders |-> {}, file |-> stamp,
                       proc |-> [p \in Procs |->
                                   [at |-> "idle", attempt |-> 0, wake |-> 0,
                                    guarded |-> FALSE, fetches |-> 0]] ] >>
    /\ fn_out = << [ last_req |-> None, too_close |-> FALSE,
                     passes_close |-> FALSE, unguarded |-> FALSE ] >>

\* requests.get is called by process p at the present time.
Requested(p) ==
    LET o == fn_out[1]
    IN  << [ o EXCEPT !.last_req = clock,
                      !.too_close = o.too_close
                                      \/ (o.last_req # None /\ clock - o.last_req < OneSecond),
                      !.unguarded = o.unguarded \/ ~fn_in[1].proc[p].guarded ] >>

\* Lines 269-278 and 145-171 after an attempt: return on success, sleep
\* HTTP_BACKOFF * (attempt + 1) and try again while attempt < HTTP_RETRIES,
\* give up after the last attempt.
AfterAttempt(st, ok) ==
    IF ok \/ st.attempt >= HTTP_RETRIES
    THEN [st EXCEPT !.at = "idle", !.attempt = 0, !.guarded = FALSE]
    ELSE [st EXCEPT !.at = "retry", !.attempt = st.attempt + 1, !.guarded = FALSE,
                    !.wake = clock + HTTP_BACKOFF * (st.attempt + 1)]

\* api_rate_guard, lines 245-255: open the lockfile, take the exclusive lock
\* (which blocks while another process holds it), read the stamp, decide the
\* sleep.
GuardEnter(p) ==
    /\ pc = "guard"
    /\ fn_in[1].proc[p].at = "idle"
    /\ fn_in[1].proc[p].fetches < GuardMaxFetches
    /\ fn_in[1].holders = {}
    /\ LET g == fn_in[1]
           last == g.file
           now == clock
           delta == now - last
       IN  fn_in' = << [ g EXCEPT !.holders = {p},
                                 !.proc[p].at = "locked",
                                 !.proc[p].fetches = @ + 1,
                                 !.proc[p].wake = IF delta < GuardGap
                                                  THEN now + (GuardGap - delta)
                                                  ELSE now ] >>
    /\ UNCHANGED <<guardrest, clock, fn_out>>

\* api_rate_guard, lines 255-260, then the first requests.get of the fetch
\* (line 271 or 147): the sleep is over, the stamp is written, the lock
\* released, and the request issued at once.
GuardLeave(p) ==
    /\ pc = "guard"
    /\ fn_in[1].proc[p].at = "locked"
    /\ clock >= fn_in[1].proc[p].wake
    /\ \E ok \in BOOLEAN :
          LET g == fn_in[1]
              st == [g.proc[p] EXCEPT !.guarded = TRUE]
          IN  /\ fn_in' = << [ g EXCEPT !.holders = g.holders \ {p},
                                        !.file = clock,
                                        !.proc[p] = AfterAttempt(st, ok) ] >>
              /\ fn_out' = << [ last_req |-> clock,
                                too_close |-> fn_out[1].too_close
                                   \/ (fn_out[1].last_req # None
                                         /\ clock - fn_out[1].last_req < OneSecond),
                                passes_close |-> fn_out[1].passes_close
                                   \/ clock - g.file < GuardGap,
                                unguarded |-> fn_out[1].unguarded ] >>
    /\ UNCHANGED <<guardrest, clock>>

\* A further attempt of the loop of lines 269-277 (145-170), after the sleep
\* of line 277 (170); api_rate_guard is not called again.
Retry(p) ==
    /\ pc = "guard"
    /\ fn_in[1].proc[p].at = "retry"
    /\ clock >= fn_in[1].proc[p].wake
    /\ \E ok \in BOOLEAN :
          fn_in' = << [ fn_in[1] EXCEPT !.proc[p] = AfterAttempt(fn_in[1].proc[p], ok) ] >>
    /\ fn_out' = Requested(p)
    /\ UNCHANGED <<guardrest, clock>>

\* Time passes.
GuardTick ==
    /\ pc = "guard"
    /\ \E d \in GuardAdvance : clock + d <= GuardMaxTime /\ clock' = clock + d
    /\ UNCHANGED <<guardrest, fn_in, fn_out>>

GuardNext ==
    \/ \E p \in Procs : GuardEnter(p)
    \/ \E p \in Procs : GuardLeave(p)
    \/ \E p \in Procs : Retry(p)
    \/ GuardTick

SpecGuard == GuardInit /\ [][GuardNext]_vars


(***************************************************************************)
(* Vocabulary of the properties.  All of it is read off two successive     *)
(* states of main(), without reference to the actions above.               *)
(***************************************************************************)

\* The rows a step adds to the cycle's row list.
NewRows == SubSeq(event_rows', Len(event_rows) + 1, Len(event_rows'))

\* The ledger key an event row stands for.
RowKey(r) ==
    IF r.event_type = "PATTERN" THEN <<r.hex, r.note>>
    ELSE IF r.event_type = "PROX" THEN SortedHexes(r.hex, r.peer) \o <<r.note>>
    ELSE r.hex

RowKeys(event_type) ==
    { RowKey(NewRows[k]) : k \in {m \in 1..Len(NewRows) :
                                     NewRows[m].event_type = event_type} }

\* A step that is one iteration of the body of one of the four loops.
PatternIter == pc = "pattern" /\ i <= Len(aircraft) /\ i' = i + 1
ProxIter == pc = "prox" /\ <<i, j, pc>>' # <<i, j, pc>>
AnomalyIter == pc = "anomaly" /\ <<i, pc>>' # <<i, pc>>
MilIter == pc = "mil" /\ <<i, pc>>' # <<i, pc>>

\* What the iteration found: a pattern name, a proximity label, a set of
\* anomaly kinds, the military flag.
PatternFound ==
    IF aircraft[i].lat = None \/ aircraft[i].lon = None THEN NoneStr
    ELSE SelectPattern(track_history'[aircraft[i].hex], args)

ProxFound ==
    ProxFinding(aircraft[i], aircraft[j],
                Get(cur_head, aircraft[i].hex, None), Get(cur_head, aircraft[j].hex, None))

AnomalyFound == Anomalies(aircraft[i], PrevOf(aircraft[i].hex))

\* The cooldown check a step makes, as a sequence of none or one record: the
\* alert class, the key, the window, the ledger before and after the step,
\* and the key under which the history variable audit follows the check.
Checked ==
    IF PatternIter /\ PatternFound # NoneStr
    THEN << [ class |-> "PATTERN", key |-> <<aircraft[i].hex, PatternFound>>,
              akey |-> <<"PATTERN", aircraft[i].hex, PatternFound>>,
              window |-> args.pattern_cooldown,
              before |-> last_pattern_alert, after |-> last_pattern_alert' ] >>
    ELSE IF ProxIter /\ ProxFound # NoneStr
    THEN << [ class |-> "PROX",
              key |-> SortedHexes(aircraft[i].hex, aircraft[j].hex) \o <<ProxFound>>,
              akey |-> <<"PROX">> \o SortedHexes(aircraft[i].hex, aircraft[j].hex)
                          \o <<ProxFound>>,
              window |-> args.prox_cooldown,
              before |-> last_prox_alert, after |-> last_prox_alert' ] >>
    ELSE IF AnomalyIter /\ AnomalyFound # {}
    THEN << [ class |-> "ANOMALY", key |-> aircraft[i].hex,
              akey |-> <<"ANOMALY", aircraft[i].hex>>,
              window |-> args.anomaly_cooldown,
              before |-> last_anom_alert, after |-> last_anom_alert' ] >>
    ELSE IF MilIter /\ aircraft[i].is_mil
    THEN << [ class |-> "MIL", key |-> aircraft[i].hex,
              akey |-> <<"MIL", aircraft[i].hex>>,
              window |-> args.mil_cooldown,
              before |-> last_mil_alert, after |-> last_mil_alert' ] >>
    ELSE << >>

\* The check c let its alert through: the step added a row of c's class for
\* c's key.
Emitted(c) ==
    \E k \in 1..Len(NewRows) :
        NewRows[k].event_type = c.class /\ RowKey(NewRows[k]) = c.key

\* The entries of a ledger that a step wrote.
Touched(before, after) ==
    {k \in DOMAIN after : k \notin DOMAIN before \/ after[k] # before[k]}

AuditClasses == { k[1] : k \in DOMAIN audit }

(***************************************************************************)
(* C1.  For each of the four alert classes PATTERN, PROX, ANOMALY and MIL, *)
(* a check at time now of a key whose recorded time is last (0 when the    *)
(* key has no entry) lets the alert through if and only if                 *)
(* now - last >= the class's window; when it does, the key's entry becomes *)
(* now, and when it does not, the ledger stays as it was.                  *)
(***************************************************************************)
C1_CooldownRule ==
    [][ \A n \in 1..Len(Checked) :
          LET c == Checked[n]
              last == IF c.key \in DOMAIN c.before THEN c.before[c.key] ELSE 0
              allowed == clock - last >= c.window
          IN  /\ Emitted(c) <=> allowed
              /\ c.after = IF allowed
                           THEN [k \in DOMAIN c.before \cup {c.key} |->
                                   IF k = c.key THEN clock ELSE c.before[k]]
                           ELSE c.before ]_vars

\* Checks of all four classes have been made, one of them suppressed.
C1_Witness ==
    /\ AuditClasses = {"PATTERN", "PROX", "ANOMALY", "MIL"}
    /\ \E k \in DOMAIN audit : audit[k].sup >= 1

(***************************************************************************)
(* C2.  A suppressed check leaves every ledger unchanged, so the window of *)
(* a key runs from its last allowed check: whatever suppressed checks came *)
(* in between, a check of the key is let through if and only if at least   *)
(* one window has passed since the key's last alert.                       *)
(***************************************************************************)
C2_SuppressedKeepsLedger ==
    [][ \A n \in 1..Len(Checked) :
          LET c == Checked[n]
          IN  /\ ~Emitted(c) => ledgers' = ledgers
              /\ c.akey \in DOMAIN audit =>
                    (Emitted(c) <=> clock - audit[c.akey].at >= c.window) ]_vars

\* An alert was let through after an earlier alert of the same key and a
\* suppressed check of it in between.
C2_Witness ==
    \E k \in DOMAIN audit : audit[k].before >= 1 /\ audit[k].at >= StartTime + 2

(***************************************************************************)
(* C3.  Keys are independent.  A step writes no ledger entry but the one   *)
(* of the alert it emits, and never removes one; and a check of a key that *)
(* has had no alert yet is let through, whatever alerts other keys (a      *)
(* PATTERN alert of the same aircraft, another pattern name, the other     *)
(* proximity label of the same pair) have had.                             *)
(***************************************************************************)
C3_KeysIndependent ==
    [][ /\ DOMAIN last_pattern_alert \subseteq DOMAIN last_pattern_alert'
        /\ DOMAIN last_prox_alert \subseteq DOMAIN last_prox_alert'
        /\ DOMAIN last_anom_alert \subseteq DOMAIN last_anom_alert'
        /\ DOMAIN last_mil_alert \subseteq DOMAIN last_mil_alert'
        /\ Touched(last_pattern_alert, last_pattern_alert') \subseteq RowKeys("PATTERN")
        /\ Touched(last_prox_alert, last_prox_alert') \subseteq RowKeys("PROX")
        /\ Touched(last_anom_alert, last_anom_alert') \subseteq RowKeys("ANOMALY")
        /\ Touched(last_mil_alert, last_mil_alert') \subseteq RowKeys("MIL")
        /\ \A n \in 1..Len(Checked) :
              LET c == Checked[n]
              IN  (c.akey \notin DOMAIN audit /\ clock >= c.window) => Emitted(c) ]_vars

\* A pair has alerts of both proximity labels, the second emitted inside the
\* window of the first, while the same aircraft has a PATTERN, an ANOMALY and
\* a MIL alert of its own.
C3_Witness ==
    /\ \E h1 \in Hexes, h2 \in Hexes :
          /\ <<h1, h2, "CLUSTER">> \in DOMAIN last_prox_alert
          /\ <<h1, h2, "INSEGUIMENTO">> \in DOMAIN last_prox_alert
          /\ Abs(last_prox_alert[<<h1, h2, "CLUSTER">>]
                 - last_prox_alert[<<h1, h2, "INSEGUIMENTO">>]) < args.prox_cooldown
          /\ h1 \in DOMAIN last_anom_alert
          /\ h1 \in DOMAIN last_mil_alert
          /\ \E k \in DOMAIN last_pattern_alert :
                /\ k[1] = h1
                /\ last_anom_alert[h1] >= last_pattern_alert[k]
                /\ last_anom_alert[h1] - last_pattern_alert[k] < args.pattern_cooldown

(***************************************************************************)
(* C4.  The track history of an aircraft holds its most recent             *)
(* min(n, maxlen) positions, oldest first, n being the number of its       *)
(* records that carried both coordinates: such a record appends its        *)
(* position and, when the history is full, drops the oldest one; a record  *)
(* that lacks a coordinate, and every other step, leaves the histories as  *)
(* they were.  TrackMaxLen stands for the deque's maxlen of 120.           *)
(***************************************************************************)
LastN(s, n) == IF Len(s) <= n THEN s ELSE SubSeq(s, Len(s) - n + 1, Len(s))

C4_TrackHistoryWindow ==
    [][ /\ \A h \in Hexes : Len(track_history'[h]) = Min2(n_seen'[h], TrackMaxLen)
        /\ IF PatternIter /\ aircraft[i].lat # None /\ aircraft[i].lon # None
           THEN track_history' =
                  [h \in Hexes |->
                     IF h = aircraft[i].hex
                     THEN LastN(track_history[h] \o <<<<aircraft[i].lat, aircraft[i].lon>>>>,
                                TrackMaxLen)
                     ELSE track_history[h]]
           ELSE track_history' = track_history ]_vars

\* An aircraft has reported more positions than the history holds, and a
\* record without a coordinate is about to be processed.
C4_Witness ==
    /\ \E h \in Hexes : n_seen[h] > TrackMaxLen /\ Len(track_history[h]) = TrackMaxLen
    /\ pc = "pattern" /\ i <= Len(aircraft)
    /\ (aircraft[i].lat = None \/ aircraft[i].lon = None)

(***************************************************************************)
(* C5.  The previous state handed to the anomaly classifier for an         *)
(* aircraft is the record kept from an earlier cycle (or none), never a    *)
(* record of the current cycle: when an iteration of the ANOMALY loop      *)
(* reads prev_state for its aircraft, no iteration of the same cycle has   *)
(* written that entry yet.                                                 *)
(***************************************************************************)
C5_PrevFromEarlierCycle ==
    (pc = "anomaly" /\ i <= Len(aircraft)) => aircraft[i].hex \notin fresh

(***************************************************************************)
(* C6.  Rows are added to event_rows only for a finding that fired and     *)
(* whose cooldown check passed: a PATTERN row for the pattern selected for *)
(* the aircraft, two PROX rows for the label found for the pair, an        *)
(* ANOMALY row carrying the kinds found, a MIL row for a military          *)
(* aircraft.  Rows already in the list stay as they are, and a ledger      *)
(* entry is written if and only if the step emits an event, namely the     *)
(* entry of the event's key, set to the time of the check.                 *)
(***************************************************************************)
C6_RowsOnlyForAllowedFindings ==
    [][ /\ pc # "fetch" => SubSeq(event_rows', 1, Len(event_rows)) = event_rows
        /\ NewRows # <<>> =>
              /\ Len(Checked) = 1
              /\ clock - Get(Checked[1].before, Checked[1].key, 0) >= Checked[1].window
              /\ Checked[1].after[Checked[1].key] = clock
              /\ \A k \in 1..Len(NewRows) :
                    /\ NewRows[k].event_type = Checked[1].class
                    /\ RowKey(NewRows[k]) = Checked[1].key
                    /\ NewRows[k].event_type = "ANOMALY" =>
                          NewRows[k].findings = AnomalyFound
        /\ ledgers' # ledgers <=> NewRows # <<>> ]_vars

\* One cycle has emitted rows of all four classes.
C6_Witness ==
    {event_rows[k].event_type : k \in 1..Len(event_rows)}
        = {"PATTERN", "PROX", "ANOMALY", "MIL"}

(***************************************************************************)
(* C7.  Pattern priority.  The pattern selected for a track is that of the *)
(* first detector that matches, in the order LOOP/RACETRACK, lawnmower     *)
(* (TAGLIAERBA), MESH/RETICOLATO; a track matching several detectors gets  *)
(* the pattern of the first of them only, a track matching none gets none. *)
(***************************************************************************)
C7_PatternPriority ==
    det_out # <<>> =>
       LET o == det_out[1]
       IN  /\ o.loop # NoneStr => o.pattern = o.loop
           /\ (o.loop = NoneStr /\ o.lawn) => o.pattern = "TAGLIAERBA"
           /\ (o.loop = NoneStr /\ ~o.lawn /\ o.mesh) => o.pattern = "MESH/RETICOLATO"
           /\ (o.loop = NoneStr /\ ~o.lawn /\ ~o.mesh) => o.pattern = NoneStr

\* A track that all three detectors match has been classified.
C7_Witness ==
    /\ det_out # <<>>
    /\ det_out[1].loop # NoneStr
    /\ det_out[1].lawn
    /\ det_out[1].mesh

(***************************************************************************)
(* C8.  Minimum-length gate.  A track with fewer points than a detector's  *)
(* min_points is no match for that detector, whatever the other parameters *)
(* are: detect_loop_or_racetrack returns no pattern, detect_lawnmower and  *)
(* detect_mesh return False.                                               *)
(***************************************************************************)
C8_MinPointsGate ==
    det_out # <<>> =>
       /\ Len(det_track) < args.loop_min_points => det_out[1].loop = NoneStr
       /\ Len(det_track) < args.lawn_min_points => ~det_out[1].lawn
       /\ Len(det_track) < args.mesh_min_points => ~det_out[1].mesh

\* A track too short for all three detectors has been classified, which each
\* of them would match were the track's length its min_points.
C8_Witness ==
    /\ det_out # <<>>
    /\ Len(det_track) < args.loop_min_points
    /\ Len(det_track) < args.lawn_min_points
    /\ Len(det_track) < args.mesh_min_points
    /\ detect_loop_or_racetrack(det_track, args.loop_close_km, Len(det_track),
                                args.loop_min_span_km, args.loop_min_laps) # NoneStr
    /\ detect_lawnmower(det_track, Len(det_track), args.lawn_heading_tol,
                        args.lawn_required_passes, args.lawn_min_span_km)
    /\ detect_mesh(det_track, Len(det_track), args.mesh_perp_tol,
                   args.mesh_min_crossings, MeshMinFamilyRatio)

(***************************************************************************)
(* C9.  detect_loop_or_racetrack returns no pattern whenever the first and *)
(* the last point of the track are farther apart than loop_close_km,       *)
(* whatever the track's length, spans and crossings and the other          *)
(* parameters are.                                                         *)
(***************************************************************************)
C9_LoopNeedsClosure ==
    (det_out # <<>>
       /\ haversine_km(det_track[1], det_track[Len(det_track)]) > args.loop_close_km)
    => det_out[1].loop = NoneStr

\* A track has been classified whose ends are too far apart and whose length,
\* spans and crossings are those of a loop or racetrack.
C9_Witness ==
    /\ det_out # <<>>
    /\ haversine_km(det_track[1], det_track[Len(det_track)]) > args.loop_close_km
    /\ Len(det_track) >= args.loop_min_points
    /\ LoopShape(det_track, args.loop_min_span_km, args.loop_min_laps) # NoneStr

(***************************************************************************)
(* C10.  detect_lawnmower returns False for a monotonic track, one whose   *)
(* consecutive-pair headings are all equal or within the heading tolerance *)
(* of one another, whatever its length and span, when required_passes is   *)
(* at least 1.                                                             *)
(***************************************************************************)
Monotonic(track, heading_tolerance) ==
    LET hs == PairHeadings(track, 1)
    IN  /\ hs # <<>>
        /\ \A m \in 1..Len(hs), n \in 1..Len(hs) :
              angle_diff_deg(hs[m], hs[n]) <= heading_tolerance

C10_MonotonicNeverLawnmower ==
    (det_out # <<>> /\ args.lawn_required_passes >= 1
       /\ Monotonic(det_track, args.lawn_heading_tol))
    => ~det_out[1].lawn

\* A monotonic track with a change of heading inside the tolerance, long and
\* wide enough to reach the count of the clusters, has been classified.
C10_Witness ==
    /\ det_out # <<>>
    /\ args.lawn_required_passes >= 1
    /\ Monotonic(det_track, args.lawn_heading_tol)
    /\ \E m \in 1..(Len(det_track) - 2) :
          heading(det_track[m], det_track[m + 1])
             # heading(det_track[m + 1], det_track[m + 2])
    /\ detect_lawnmower(det_track, args.lawn_min_points, args.lawn_heading_tol,
                        0, args.lawn_min_span_km)

(***************************************************************************)
(* C11.  Proximity classification is symmetric: for any two aircraft       *)
(* records and current headings, taking the pair as (A, B) or as (B, A)    *)
(* gives the same outcome (no finding, CLUSTER or INSEGUIMENTO) and the    *)
(* same cooldown key.                                                      *)
(***************************************************************************)
C11_ProxSymmetric ==
    fn_out # <<>> =>
       /\ fn_out[1].ab = fn_out[1].ba
       /\ fn_out[1].key_ab = fn_out[1].key_ba

\* A pair in which the first record follows the second, and not the other way
\* round, has been labelled in both orders.
C11_Witness ==
    /\ fn_out # <<>>
    /\ fn_out[1].ab = "INSEGUIMENTO"
    /\ LET x == fn_in[1]
       IN  /\ approx_following(<<x.ac2.lat, x.ac2.lon>>, x.h2,
                               <<x.ac1.lat, x.ac1.lon>>, x.h1, args.prox_angle_deg)
           /\ ~approx_following(<<x.ac1.lat, x.ac1.lon>>, x.h1,
                                <<x.ac2.lat, x.ac2.lon>>, x.h2, args.prox_angle_deg)

(***************************************************************************)
(* C12.  Pursuit labelling.  A pair that passes the distance, altitude,    *)
(* speed and heading-alignment checks is labelled INSEGUIMENTO if and only *)
(* if, in at least one direction, the trailing aircraft's heading is       *)
(* within tolerance of the leader's and the bearing from the leader to the *)
(* trailer is within tolerance of the leader's reciprocal heading;         *)
(* otherwise it is labelled CLUSTER.                                       *)
(***************************************************************************)
Reciprocal(h) == (h + 180000) % 360000

Trails(p_lead, h_lead, p_trail, h_trail, tol) ==
    /\ angle_diff_deg(h_trail, h_lead) <= tol
    /\ p_lead # p_trail
    /\ angle_diff_deg(heading(p_lead, p_trail), Reciprocal(h_lead)) <= tol

C12_PursuitLabel ==
    (fn_out # <<>> /\ fn_out[1].ab # NoneStr) =>
       LET x == fn_in[1]
           p1 == <<x.ac1.lat, x.ac1.lon>>
           p2 == <<x.ac2.lat, x.ac2.lon>>
           pursuit == \/ Trails(p1, x.h1, p2, x.h2, args.prox_angle_deg)
                      \/ Trails(p2, x.h2, p1, x.h1, args.prox_angle_deg)
       IN  fn_out[1].ab = IF pursuit THEN "INSEGUIMENTO" ELSE "CLUSTER"

\* Both aircraft head 090 and the second bears 270 from the first: the pair
\* has been labelled INSEGUIMENTO.
C12_Witness ==
    /\ fn_out # <<>>
    /\ fn_in[1].h1 = 90000
    /\ fn_in[1].h2 = 90000
    /\ fn_in[1].ac1.lat # None
    /\ fn_in[1].ac2.lat # None
    /\ heading(<<fn_in[1].ac1.lat, fn_in[1].ac1.lon>>,
               <<fn_in[1].ac2.lat, fn_in[1].ac2.lon>>) = 270000
    /\ fn_out[1].ab = "INSEGUIMENTO"

(***************************************************************************)
(* C13.  Grounded suppression.  Whenever the aircraft is determined        *)
(* grounded (ground flag true, or altitude <= 100 ft with speed unknown or *)
(* < 60 kt, or altitude <= 0 ft), detect_anomalies reports neither         *)
(* "GS bassa" nor "ALT bassa", for every speed, altitude and setting of    *)
(* the thresholds.                                                         *)
(***************************************************************************)
DeterminedGrounded(ac) ==
    \/ ac.ground = "True"
    \/ ac.alt_baro # None /\ ac.alt_baro <= 100 /\ (ac.gs = None \/ ac.gs < 60)
    \/ ac.alt_baro # None /\ ac.alt_baro <= 0

C13_GroundedSuppression ==
    (fn_out # <<>> /\ "ac" \in DOMAIN fn_in[1] /\ DeterminedGrounded(fn_in[1].ac)) =>
       /\ "GS bassa" \notin fn_out[1].anomalies
       /\ "ALT bassa" \notin fn_out[1].anomalies

\* A grounded aircraft slower than min_gs_kt and lower than min_alt_ft, at a
\* positive altitude, has been classified.
C13_Witness ==
    /\ fn_out # <<>>
    /\ "ac" \in DOMAIN fn_in[1]
    /\ DeterminedGrounded(fn_in[1].ac)
    /\ fn_in[1].ac.ground # "True"
    /\ fn_in[1].ac.gs # None
    /\ fn_in[1].ac.gs < args.min_gs_kt
    /\ fn_in[1].ac.alt_baro # None
    /\ fn_in[1].ac.alt_baro > 0
    /\ fn_in[1].ac.alt_baro < args.min_alt_ft

(***************************************************************************)
(* C14.  Anomaly findings are evaluated independently and all that match   *)
(* are reported: the result holds the squawk finding iff the squawk is     *)
(* 7500, 7600 or 7700, "GS alta" iff the ground speed is above the         *)
(* maximum, "GS bassa" iff it is below the minimum and the aircraft is not *)
(* grounded, "ALT alta" iff the altitude is above the maximum, "ALT bassa" *)
(* iff the altitude is positive, below the minimum and the aircraft is not *)
(* grounded.                                                               *)
(***************************************************************************)
C14_FindingsIndependent ==
    fn_out # <<>> =>
       LET ac == fn_in[1].ac
           found == fn_out[1].anomalies
           grounded == fn_out[1].is_ground
       IN  /\ "SQUAWK" \in found <=> ac.squawk \in {"7500", "7600", "7700"}
           /\ "GS alta" \in found <=> (ac.gs # None /\ ac.gs > args.max_gs_kt)
           /\ "GS bassa" \in found <=>
                 (ac.gs # None /\ ac.gs < args.min_gs_kt /\ ~grounded)
           /\ "ALT alta" \in found <=>
                 (ac.alt_baro # None /\ ac.alt_baro > args.max_alt_ft)
           /\ "ALT bassa" \in found <=>
                 (ac.alt_baro # None /\ 0 < ac.alt_baro
                    /\ ac.alt_baro < args.min_alt_ft /\ ~grounded)

(***************************************************************************)
(* C15.  Cycle-to-cycle anomaly rules: "dGS anomalo" is reported iff a     *)
(* previous state exists, both timestamps are present and the elapsed time *)
(* between them is strictly positive, both ground speeds are known and     *)
(* |current GS - previous GS| > max_dgs_kts; "VS anomala" is reported iff  *)
(* the same holds of the altitudes with                                    *)
(* |(current alt - previous alt) / elapsed * 60| > max_vs_fpm.  A missing  *)
(* timestamp or an elapsed time that is zero or negative gives neither.    *)
(***************************************************************************)
C15_CycleToCycleRules ==
    fn_out # <<>> =>
       LET ac == fn_in[1].ac
           prev == fn_in[1].prev
           found == fn_out[1].anomalies
           positive == /\ prev # <<>>
                       /\ ac.ts # None
                       /\ prev[1].ts # None
                       /\ ac.ts - prev[1].ts > 0
       IN  /\ "dGS anomalo" \in found <=>
                 /\ positive
                 /\ ac.gs # None
                 /\ prev[1].gs # None
                 /\ Abs(ac.gs - prev[1].gs) > args.max_dgs_kts
           /\ "VS anomala" \in found <=>
                 /\ positive
                 /\ ac.alt_baro # None
                 /\ prev[1].alt_baro # None
                 /\ Abs(ac.alt_baro - prev[1].alt_baro) * 60
                       > args.max_vs_fpm * (ac.ts - prev[1].ts)

(***************************************************************************)
(* C19.  Ground-state derivation precedence: when the ground flag is       *)
(* present (true or false) the grounded determination equals the flag; the *)
(* altitude and speed rules (altitude <= 100 ft with speed absent or       *)
(* < 60 kt; altitude <= 0 ft) are consulted only when the flag is absent.  *)
(***************************************************************************)
C19_GroundFlagPrecedence ==
    fn_out # <<>> =>
       LET ac == fn_in[1].ac
       IN  fn_out[1].is_ground =
              IF ac.ground = "True" THEN TRUE
              ELSE IF ac.ground = "False" THEN FALSE
              ELSE \/ ac.alt_baro # None /\ ac.alt_baro <= 100
                         /\ (ac.gs = None \/ ac.gs < 60)
                   \/ ac.alt_baro # None /\ ac.alt_baro <= 0

(***************************************************************************)
(* C16.  Malformed input.  A raw record one of whose numeric fields (lat,  *)
(* lon, alt_baro, gs, timestamp) cannot be coerced to a number is dropped  *)
(* from the cycle: no Aircraft is built for it; the other records of the   *)
(* cycle are still normalized.                                             *)
(***************************************************************************)
Uncoercible(raw) ==
    \/ raw.lat.tag = "bad"
    \/ raw.lon.tag = "bad"
    \/ raw.alt_baro.tag = "bad"
    \/ raw.gs.tag = "bad"
    \/ RawOr(raw.seen_pos_timestamp, raw.seen_timestamp).tag = "bad"

C16_MalformedDropped ==
    fn_out # <<>> =>
       LET merged == fn_in[1]
           built == {fn_out[1][k].from : k \in 1..Len(fn_out[1])}
       IN  \A k \in 1..Len(merged) :
              k \in built <=> (merged[k].kind = "object" /\ ~Uncoercible(merged[k]))

(***************************************************************************)
(* C17.  Once per aircraft per cycle: in every cycle and for every hex, at *)
(* most one position is appended to the hex's track history, the pattern   *)
(* selection runs at most once for it and at most one PATTERN event is     *)
(* emitted for it, whatever records the fetches deliver, several records   *)
(* of one hex included.                                                    *)
(***************************************************************************)
HasPosition(ac) == ac.lat # None /\ ac.lon # None

C17_OncePerCycle ==
    [][ (PatternIter /\ HasPosition(aircraft[i])) =>
           /\ \A k \in 1..(i - 1) :
                 ~(aircraft[k].hex = aircraft[i].hex /\ HasPosition(aircraft[k]))
           /\ \A h \in Hexes :
                 Cardinality({k \in 1..Len(event_rows') :
                                 /\ event_rows'[k].event_type = "PATTERN"
                                 /\ event_rows'[k].hex = h}) <= 1 ]_vars

(***************************************************************************)
(* C18.  Phase ordering inside a cycle: the track histories change only in *)
(* the iterations of the TRACK & PATTERN loop, all of which come before    *)
(* the proximity phase; so when the current headings are derived from the  *)
(* last two history points, the history of every aircraft of the cycle's   *)
(* list with a known position ends with its current-cycle position.        *)
(***************************************************************************)
C18_PhaseOrdering ==
    [][ /\ track_history' # track_history => PatternIter
        /\ (pc = "pattern" /\ i > Len(aircraft)) =>
              \A k \in 1..Len(aircraft) :
                 HasPosition(aircraft[k]) =>
                    LET th == track_history[aircraft[k].hex]
                    IN  th # <<>> /\ th[Len(th)] = <<aircraft[k].lat, aircraft[k].lon>> ]_vars

(***************************************************************************)
(* C20.  A back-and-forth sweep is classified as LAWNMOWER: for a track    *)
(* with at least min_points points and diagonal span >= min_span_km whose  *)
(* consecutive-pair bearings alternate between a direction and its         *)
(* reverse, with at least required_passes segments in each of the two      *)
(* directions and at least required_passes - 1 alternations,               *)
(* detect_lawnmower returns a match.                                       *)
(***************************************************************************)
BackAndForth(track, required_passes) ==
    LET hs == PairHeadings(track, 1)
    IN  /\ hs # <<>>
        /\ \E m \in 1..Len(hs) :
              LET d == hs[m]
                  r == (hs[m] + 180000) % 360000
              IN  /\ \A n \in 1..Len(hs) : hs[n] \in {d, r}
                  /\ Cardinality({n \in 1..Len(hs) : hs[n] = d}) >= required_passes
                  /\ Cardinality({n \in 1..Len(hs) : hs[n] = r}) >= required_passes
                  /\ \E n \in 1..Len(hs) : hs[n] = r
        /\ Alternations(hs) >= required_passes - 1

C20_SweepIsLawnmower ==
    (/\ det_out # <<>>
     /\ Len(det_track) >= args.lawn_min_points
     /\ haversine_km(<<SetMin(Lats(det_track)), SetMin(Lons(det_track))>>,
                     <<SetMax(Lats(det_track)), SetMax(Lons(det_track))>>)
           >= args.lawn_min_span_km
     /\ BackAndForth(det_track, args.lawn_required_passes))
    => det_out[1].lawn

(***************************************************************************)
(* C21.  detect_mesh returns a match only if, over the bearings assigned   *)
(* to one of the two perpendicular family axes, each family holds at least *)
(* min_family_ratio of them and the number of family-switch transitions    *)
(* (consecutive classified bearings of different families) is at least     *)
(* min_crossings; each bearing is assigned to the family axis it is        *)
(* closest to, opposite directions being the same axis.                    *)
(***************************************************************************)
\* The distance in whole degrees between bearing h and the axis of a, both
\* folded to [0, 180).
AxisDiff(h, a) == Min2((h - a) % 180, 180 - ((h - a) % 180))

\* The family of the axis closest to h, if that axis is within tol.
ClosestFamily(h, a, b, tol) ==
    IF Min2(AxisDiff(h, a), AxisDiff(h, b)) * 1000 > tol THEN NoneStr
    ELSE IF AxisDiff(h, a) <= AxisDiff(h, b) THEN "A"
    ELSE "B"

RECURSIVE ClosestFamilies(_, _, _, _)
ClosestFamilies(heads, a, b, tol) ==
    IF heads = <<>> THEN <<>>
    ELSE LET f == ClosestFamily(Head(heads), a, b, tol)
         IN  (IF f = NoneStr THEN <<>> ELSE <<f>>) \o ClosestFamilies(Tail(heads), a, b, tol)

\* The number of consecutive classified bearings of different families.
FamilySwitches(fams) == Cardinality({k \in 2..Len(fams) : fams[k] # fams[k - 1]})

\* The families of the track's bearings about the axes detect_mesh picks.
MeshAssigned(track, tol) ==
    LET heads == MeshHeads(track)
        uniq == {heads[k] : k \in 1..Len(heads)}
        pair == MeshFirstPair(uniq, tol)
    IN  ClosestFamilies(heads, pair[1], pair[2], tol)

C21_MeshNeedsSwitches ==
    (det_out # <<>> /\ det_out[1].mesh) =>
        LET fams == MeshAssigned(det_track, args.mesh_perp_tol)
            nA == Cardinality({k \in 1..Len(fams) : fams[k] = "A"})
            nB == Cardinality({k \in 1..Len(fams) : fams[k] = "B"})
        IN  /\ nA * 100 >= MeshMinFamilyRatio * (nA + nB)
            /\ nB * 100 >= MeshMinFamilyRatio * (nA + nB)
            /\ FamilySwitches(fams) >= args.mesh_min_crossings

(***************************************************************************)
(* C22.  detect_loop_or_racetrack returns a match only if the track        *)
(* crosses its latitudinal midline (mean of min and max latitude) at least *)
(* 2 * min_laps times, a crossing being a pair of consecutive points whose *)
(* (lat - midlat) values have opposite signs; when it matches, the result  *)
(* is LOOP/CERCHIO if the span ratio major / minor is below 1.5 and        *)
(* RACETRACK otherwise; and it never matches when the major span is below  *)
(* min_span_km or the minor span is below 2 km.                            *)
(***************************************************************************)
\* The pairs of consecutive points on opposite sides of the midline.
MidlineCrossings(track) ==
    LET twice_mid == SetMax(Lats(track)) + SetMin(Lats(track))
    IN  Cardinality({k \in 1..(Len(track) - 1) :
            \/ 2 * Lat(track[k]) < twice_mid /\ 2 * Lat(track[k + 1]) > twice_mid
            \/ 2 * Lat(track[k]) > twice_mid /\ 2 * Lat(track[k + 1]) < twice_mid})

\* The spans of the bounding box of the track: <<latitudinal, longitudinal>>,
\* in millimetres and in fine units.
BoxSpans(track) ==
    LET minlat == SetMin(Lats(track))
        minlon == SetMin(Lons(track))
    IN  << haversine_km(<<minlat, minlon>>, <<SetMax(Lats(track)), minlon>>),
           haversine_km(<<minlat, minlon>>, <<minlat, SetMax(Lons(track))>>) >>

BoxSpansFine(track) ==
    << (SetMax(Lats(track)) - SetMin(Lats(track))) * FineStep,
       ParallelFine[SetMin(Lats(track)) + 1][SetMax(Lons(track)) - SetMin(Lons(track)) + 1] >>

C22_LoopShapeRule ==
    det_out # <<>> =>
        LET sp == BoxSpans(det_track)
            fine == BoxSpansFine(det_track)
            major == Max2(sp[1], sp[2])
            minor == Min2(sp[1], sp[2])
            below == 2 * Max2(fine[1], fine[2]) < 3 * Min2(fine[1], fine[2])
        IN  /\ det_out[1].loop # NoneStr =>
                  /\ MidlineCrossings(det_track) >= 2 * args.loop_min_laps
                  /\ det_out[1].loop = (IF below THEN "LOOP/CERCHIO" ELSE "RACETRACK")
            /\ (major < args.loop_min_span_km \/ minor < 2000000) =>
                  det_out[1].loop = NoneStr

\* C22 as the code has it: the same three statements, the result of a match
\* being LOOP/CERCHIO if major / (minor + 1e-6 km) is below 1.5 and
\* RACETRACK otherwise, so that a ratio of exactly 1.5 is still a LOOP.
C22_LoopShapeRuleEps ==
    det_out # <<>> =>
        LET sp == BoxSpans(det_track)
            fine == BoxSpansFine(det_track)
            major == Max2(sp[1], sp[2])
            minor == Min2(sp[1], sp[2])
            below == 2 * Max2(fine[1], fine[2]) < 3 * (Min2(fine[1], fine[2]) + AspectEps)
        IN  /\ det_out[1].loop # NoneStr =>
                  /\ MidlineCrossings(det_track) >= 2 * args.loop_min_laps
                  /\ det_out[1].loop = (IF below THEN "LOOP/CERCHIO" ELSE "RACETRACK")
            /\ (major < args.loop_min_span_km \/ minor < 2000000) =>
                  det_out[1].loop = NoneStr

\* A closed track that crosses its midline twice, one lap being asked for, and
\* whose box is exactly one and a half times as long as wide has been
\* classified a loop.
C22_Witness ==
    /\ det_out # <<>>
    /\ args.loop_min_laps = 1
    /\ MidlineCrossings(det_track) = 2
    /\ LET fine == BoxSpansFine(det_track)
       IN  2 * Max2(fine[1], fine[2]) = 3 * Min2(fine[1], fine[2])
    /\ det_out[1].loop = "LOOP/CERCHIO"

(***************************************************************************)
(* C23.  Conservative proximity: nothing is found for a pair when the      *)
(* altitude of either aircraft is unknown, the ground speed of either is   *)
(* unknown, or the current heading of either is undefined (fewer than two  *)
(* history points, or the last two history points identical); a finding    *)
(* requires distance < proximity radius and altitude difference <=         *)
(* threshold and speed difference <= threshold and heading difference <=   *)
(* tolerance.                                                              *)
(***************************************************************************)
HeadingUndefined(th) == Len(th) < 2 \/ th[Len(th) - 1] = th[Len(th)]

C23_ConservativeProx ==
    fn_out # <<>> =>
       LET x == fn_in[1]
       IN  /\ (\/ x.ac1.alt_baro = None \/ x.ac2.alt_baro = None
               \/ x.ac1.gs = None \/ x.ac2.gs = None
               \/ HeadingUndefined(x.th1) \/ HeadingUndefined(x.th2))
                 => fn_out[1].ab = NoneStr
           /\ fn_out[1].ab # NoneStr =>
                 /\ haversine_km(<<x.ac1.lat, x.ac1.lon>>, <<x.ac2.lat, x.ac2.lon>>)
                       < args.proximity_km
                 /\ Abs(x.ac1.alt_baro - x.ac2.alt_baro) <= args.prox_alt_diff_ft
                 /\ Abs(x.ac1.gs - x.ac2.gs) <= args.prox_gs_diff_kt
                 /\ angle_diff_deg(heading(x.th1[Len(x.th1) - 1], x.th1[Len(x.th1)]),
                                   heading(x.th2[Len(x.th2) - 1], x.th2[Len(x.th2)]))
                       <= args.prox_angle_deg

\* Two aircraft one step apart, altitudes and speeds known and close, the first
\* heading north and the second one not having moved since its last position:
\* nothing is found.
C23_Witness ==
    /\ fn_out # <<>>
    /\ LET x == fn_in[1]
       IN  /\ x.ac1.hex # x.ac2.hex
           /\ LatLonTruthy(x.ac1) /\ LatLonTruthy(x.ac2)
           /\ haversine_km(<<x.ac1.lat, x.ac1.lon>>, <<x.ac2.lat, x.ac2.lon>>)
                 < args.proximity_km
           /\ x.ac1.alt_baro # None /\ x.ac2.gs # None
           /\ Abs(x.ac1.alt_baro - x.ac2.alt_baro) <= args.prox_alt_diff_ft
           /\ Abs(x.ac1.gs - x.ac2.gs) <= args.prox_gs_diff_kt
           /\ ~HeadingUndefined(x.th1)
           /\ Len(x.th2) = 2 /\ x.th2[1] = x.th2[2]
    /\ fn_out[1].ab = NoneStr

(***************************************************************************)
(* C24.  Proximity coverage: every pair of current aircraft with different *)
(* hex whose lat and lon are both present, whatever the coordinate values  *)
(* (a latitude or longitude equal to 0 included), is evaluated, and is     *)
(* skipped for distance only when the great-circle distance is >= the      *)
(* proximity radius: such a pair within the radius that passes the         *)
(* altitude, speed and heading checks gives a finding.                     *)
(***************************************************************************)
C24_ProxCoverage ==
    fn_out # <<>> =>
       LET x == fn_in[1]
       IN  (/\ HasPosition(x.ac1) /\ HasPosition(x.ac2)
            /\ x.ac1.hex # x.ac2.hex
            /\ haversine_km(<<x.ac1.lat, x.ac1.lon>>, <<x.ac2.lat, x.ac2.lon>>)
                  < args.proximity_km
            /\ ProxChecks(x.ac1, x.ac2, x.h1, x.h2))
           => fn_out[1].ab # NoneStr

(***************************************************************************)
(* C25.  When a proximity finding passes its cooldown, exactly two PROX    *)
(* rows are emitted in that cycle, one with each aircraft of the pair as   *)
(* subject, each naming the other aircraft as peer and carrying the same   *)
(* label and distance; while the pair's (sorted hexes, label) key is       *)
(* inside the cooldown window, no PROX row with that label is emitted for  *)
(* the pair.                                                               *)
(***************************************************************************)
\* The rows of the cycle's list that are PROX rows of the ledger key.
ProxRowsOf(rows, key) ==
    {k \in 1..Len(rows) : rows[k].event_type = "PROX" /\ RowKey(rows[k]) = key}

C25_ProxRowsPaired ==
    [][ (ProxIter /\ ProxFound # NoneStr) =>
          LET a1 == aircraft[i]
              a2 == aircraft[j]
              key == SortedHexes(a1.hex, a2.hex) \o <<ProxFound>>
              inside == clock - Get(last_prox_alert, key, 0) < args.prox_cooldown
              dist == haversine_km(<<a1.lat, a1.lon>>, <<a2.lat, a2.lon>>)
          IN  /\ ~inside =>
                    /\ Len(NewRows) = 2
                    /\ \A k \in 1..2 :
                          /\ NewRows[k].event_type = "PROX"
                          /\ NewRows[k].note = ProxFound
                          /\ NewRows[k].dist = dist
                    /\ {<<NewRows[k].hex, NewRows[k].peer>> : k \in 1..2}
                          = {<<a1.hex, a2.hex>>, <<a2.hex, a1.hex>>}
                    /\ Cardinality(ProxRowsOf(event_rows', key)) = 2
              /\ inside => NewRows = <<>> ]_vars

\* The proximity phase of a cycle is over in which the pair's finding was
\* checked inside the window of its last alert: the ledger holds the key and
\* the cycle's list has no PROX row of it.
C25_Witness ==
    /\ pc = "anomaly"
    /\ \E k \in DOMAIN audit :
          /\ k[1] = "PROX"
          /\ audit[k].sup >= 1
          /\ <<k[2], k[3], k[4]>> \in DOMAIN last_prox_alert
          /\ clock - last_prox_alert[<<k[2], k[3], k[4]>>] < args.prox_cooldown
          /\ ProxRowsOf(event_rows, <<k[2], k[3], k[4]>>) = {}

(***************************************************************************)
(* C26.  The ANOMALY cooldown is keyed by hex alone: after an ANOMALY      *)
(* event for a hex, no further ANOMALY event is emitted for that hex until *)
(* the anomaly window has elapsed, even when the findings of a later cycle *)
(* differ from those alerted (an emergency squawk appearing after a        *)
(* low-speed alert).                                                       *)
(***************************************************************************)
C26_AnomalyKeyedByHex ==
    [][ \A h \in Hexes :
          (/\ <<"ANOMALY", h>> \in DOMAIN audit
           /\ clock - audit[<<"ANOMALY", h>>].at < args.anomaly_cooldown)
          => \A k \in 1..Len(NewRows) :
                ~(NewRows[k].event_type = "ANOMALY" /\ NewRows[k].hex = h) ]_vars

\* The aircraft was alerted for its low speed in one cycle; in the next, inside
\* the window, it squawks 7700, and the check of the cycle has emitted nothing.
C26_Witness ==
    /\ pc = "mil"
    /\ Len(aircraft) = 1
    /\ aircraft[1].squawk = "7700"
    /\ Anomalies(aircraft[1], <<>>) = {"SQUAWK"}
    /\ Len(track_history["a"]) >= 2
    /\ track_history["a"][Len(track_history["a"]) - 1] = <<1, 1>>
    /\ <<"ANOMALY", "a">> \in DOMAIN audit
    /\ audit[<<"ANOMALY", "a">>].sup = 1
    /\ clock - audit[<<"ANOMALY", "a">>].at < args.anomaly_cooldown
    /\ event_rows = <<>>

(***************************************************************************)
(* C27.  Cross-process rate limit: with any number of processes sharing    *)
(* the lockfile, passes through api_rate_guard are mutually exclusive and  *)
(* consecutive passes are stamped at least 1.05 s apart, and every HTTP    *)
(* request of fetch_tile and fetch_military, each retry attempt included,  *)
(* is preceded by its own pass through the guard, so that no two requests  *)
(* start less than about one second apart.                                 *)
(***************************************************************************)
C27_CrossProcessRateLimit ==
    (pc = "guard" /\ fn_in # <<>> /\ fn_out # <<>>) =>
       /\ Cardinality(fn_in[1].holders) <= 1
       /\ ~fn_out[1].passes_close
       /\ ~fn_out[1].unguarded
       /\ ~fn_out[1].too_close

====
